---- MODULE Spec2Model ----
\* A model of the centralized state container of the bookkeeping dashboard:
\* StateManager (store/StateManager.ts), the initial snapshot (store/AppState.ts)
\* and the action layer (store/StateActions.ts).
EXTENDS Integers, Sequences, FiniteSets, TLC

\* ---------------------------------------------------------------- values
\* A JavaScript value is a record with the same six fields whatever its type:
\*   t  : typeof-like tag ("string", "number", "boolean", "null", "undefined",
\*        "array", "object")
\*   p  : the text of a string or boolean, "NaN" for the number NaN
\*   n  : the value of a number
\*   id : the identity (reference) of an array or object, 0 for primitives
\*   e  : the elements of an array
\*   f  : the own properties of an object (property name -> value)

Str(s) == [t |-> "string", p |-> s, n |-> 0, id |-> 0, e |-> <<>>, f |-> <<>>]
Num(k) == [t |-> "number", p |-> "", n |-> k, id |-> 0, e |-> <<>>, f |-> <<>>]
NaN == [t |-> "number", p |-> "NaN", n |-> 0, id |-> 0, e |-> <<>>, f |-> <<>>]
Bool(b) == [t |-> "boolean", p |-> IF b THEN "true" ELSE "false", n |-> 0, id |-> 0, e |-> <<>>, f |-> <<>>]
Null == [t |-> "null", p |-> "", n |-> 0, id |-> 0, e |-> <<>>, f |-> <<>>]
Undefined == [t |-> "undefined", p |-> "", n |-> 0, id |-> 0, e |-> <<>>, f |-> <<>>]
Arr(i, es) == [t |-> "array", p |-> "", n |-> 0, id |-> i, e |-> es, f |-> <<>>]
Obj(i, fs) == [t |-> "object", p |-> "", n |-> 0, id |-> i, e |-> <<>>, f |-> fs]

IsRef(v) == v.t \in {"array", "object"}

\* a === b : primitives by type and value (NaN is not === NaN), arrays and
\* objects by reference.
StrictEq(a, b) ==
    IF a.t # b.t THEN FALSE
    ELSE IF IsRef(a) THEN a.id = b.id
    ELSE IF a.t = "number" THEN a.p # "NaN" /\ b.p # "NaN" /\ a.n = b.n
    ELSE a.p = b.p

\* !v : the falsy values are undefined, null, false, 0, NaN and "".
Falsy(v) ==
    \/ v.t \in {"undefined", "null"}
    \/ v.t = "boolean" /\ v.p = "false"
    \/ v.t = "number" /\ (v.p = "NaN" \/ v.n = 0)
    \/ v.t = "string" /\ v.p = ""

\* obj[key] : reading a property that is absent gives undefined.
GetProp(obj, key) ==
    IF obj.t = "object" /\ key \in DOMAIN obj.f THEN obj.f[key] ELSE Undefined

\* obj[key] = value on an object.
PutPropAlone(obj, key, value) == [obj EXCEPT !.f = [k \in {key} |-> value]]
PutProp(obj, key, value) ==
    [obj EXCEPT !.f = [k \in (DOMAIN obj.f) \cup {key} |->
                          IF k = key THEN value ELSE obj.f[k]]]

\* The identity of a copy made by deepClone: a new object, distinct from the
\* original and from every object a caller holds.
CloneOffset == 100

\* deepClone(obj), the copies having the identities of the originals moved by
\* offset.
RECURSIVE DeepCloneTo(_, _)
DeepCloneTo(obj, offset) ==
    IF obj.t = "array"
        THEN Arr(obj.id + offset, [i \in 1..Len(obj.e) |-> DeepCloneTo(obj.e[i], offset)])
    ELSE IF obj.t = "object"
        THEN Obj(obj.id + offset, [k \in DOMAIN obj.f |-> DeepCloneTo(obj.f[k], offset)])
    ELSE obj

DeepClone(obj) == DeepCloneTo(obj, CloneOffset)

\* The identities of the copies the n-th getState() of a behaviour makes are
\* those of the originals moved by n times HeldOffset: new objects, distinct
\* from those of the state, of the history and of the earlier copies.
HeldOffset == 1000

\* ------------------------------------------------------- shared objects
\* An array or object is shared by everything that holds a reference to it:
\* a write made through one reference is seen through the others.
\* The arrays and objects of the tree v.
RECURSIVE Parts(_)
Parts(v) ==
    IF ~IsRef(v) THEN {}
    ELSE {v} \cup UNION {Parts(v.e[i]) : i \in 1..Len(v.e)}
             \cup UNION {Parts(v.f[k]) : k \in DOMAIN v.f}

Ids(v) == {x.id : x \in Parts(v)}

\* The tree v as it is seen once the arrays and objects parts (whose
\* identities are ids) have been written to: every array or object of v that
\* is one of them has the contents it has there.
RECURSIVE SyncTo(_, _, _)
SyncTo(v, parts, ids) ==
    IF ~IsRef(v) THEN v
    ELSE IF v.id \in ids THEN CHOOSE x \in parts : x.id = v.id
    ELSE [v EXCEPT !.e = [i \in 1..Len(v.e) |-> SyncTo(v.e[i], parts, ids)],
                   !.f = [k \in DOMAIN v.f |-> SyncTo(v.f[k], parts, ids)]]

\* One of the arrays and objects of the tree v has its identity in ids.
RECURSIVE Touches(_, _)
Touches(v, ids) ==
    /\ IsRef(v)
    /\ \/ v.id \in ids
       \/ \E i \in 1..Len(v.e) : Touches(v.e[i], ids)
       \/ \E k \in DOMAIN v.f : Touches(v.f[k], ids)

\* The same, the objects written to being those of the tree src.
Sync(v, src) == LET parts == Parts(src) IN SyncTo(v, parts, {x.id : x \in parts})

SyncHistoryTo(h, parts, ids) ==
    [i \in 1..Len(h) |-> [h[i] EXCEPT !.oldValue = SyncTo(@, parts, ids),
                                       !.newValue = SyncTo(@, parts, ids)]]

SyncHistory(h, src) == LET parts == Parts(src) IN SyncHistoryTo(h, parts, {x.id : x \in parts})

\* The objects of the tree obj that the segments of path lead through, obj
\* included.
RECURSIVE OnPath(_, _)
OnPath(obj, path) ==
    IF ~IsRef(obj) THEN {}
    ELSE IF path = <<>> THEN {obj}
    ELSE {obj} \cup OnPath(GetProp(obj, Head(path)), Tail(path))

\* obj.k1.k2...kn = value, along a path that exists.
RECURSIVE AssignAt(_, _, _)
AssignAt(obj, path, value) ==
    IF Len(path) = 1 THEN PutProp(obj, path[1], value)
    ELSE PutProp(obj, Head(path), AssignAt(GetProp(obj, Head(path)), Tail(path), value))

RECURSIVE DeepEqualStructural(_, _)
DeepEqualStructural(a, b) ==
    IF StrictEq(a, b) THEN TRUE
    ELSE IF a.t = "array" /\ b.t = "array"
        THEN /\ Len(a.e) = Len(b.e)
             /\ \A i \in 1..Len(a.e) : DeepEqualStructural(a.e[i], b.e[i])
    ELSE IF a.t = "object" /\ b.t = "object"
        THEN /\ DOMAIN a.f = DOMAIN b.f
             /\ \A k \in DOMAIN a.f : DeepEqualStructural(a.f[k], b.f[k])
    ELSE FALSE
DeepEqualByIdentity(a, b) == StrictEq(a, b)
RECURSIVE DeepEqual(_, _)
DeepEqual(a, b) ==
    IF StrictEq(a, b) THEN TRUE
    ELSE IF a.t = "null" \/ b.t = "null" THEN FALSE
    ELSE IF a.t = "array" /\ b.t = "array"
        THEN /\ Len(a.e) = Len(b.e)
             /\ \A i \in 1..Len(a.e) : DeepEqual(a.e[i], b.e[i])
    ELSE FALSE

\* ------------------------------------------------------- initial snapshot
\* Identities of the objects of the initial snapshot (store/AppState.ts).
InitialState ==
    Obj(1, [activeTab |-> Str("overview"),
            isLoading |-> Bool(FALSE),
            currentRecord |-> Null,
            currentRecordType |-> Null,
            selectedHomeOfficeMethod |-> Null,
            formStates |-> Obj(2, <<>>),
            modalStates |-> Obj(3, <<>>),
            notifications |-> Arr(4, <<>>),
            data |-> Obj(5, [income |-> Arr(6, <<>>),
                             expenses |-> Arr(7, <<>>),
                             mileage |-> Arr(8, <<>>),
                             utilities |-> Arr(9, <<>>),
                             taxPayments |-> Arr(10, <<>>),
                             savingsGoals |-> Arr(11, <<>>)])])

\* ------------------------------------------------------------ validators
validTabs == {"overview", "income", "expenses", "deductions", "taxes", "goals"}
validTypes == {"income", "expenses", "mileage", "utilities", "tax-payments", "savings-goals"}
validMethods == {"simplified", "actual"}

\* The keys the validator registry holds after setupValidators().
ValidatorKeys == {"activeTab", "currentRecordType", "selectHomeOfficeMethod", "currentRecord"}

\* validators.get(key)(value, key), for key in ValidatorKeys.
Validator(key, value) ==
    CASE key = "activeTab" -> value.t = "string" /\ value.p \in validTabs
      [] key = "currentRecordType" ->
            value.t = "null" \/ (value.t = "string" /\ value.p \in validTypes)
      [] key = "selectHomeOfficeMethod" ->
            value.t = "null" \/ (value.t = "string" /\ value.p \in validMethods)
      [] key = "currentRecord" ->
            value.t = "null" \/ (value.t = "number" /\ value.p # "NaN" /\ value.n > 0)
      [] OTHER -> TRUE

ValidatorAnyTab(key, value) ==
    IF key = "activeTab" THEN value.t = "string" ELSE Validator(key, value)
ValidatorAnyNumber(key, value) ==
    IF key = "currentRecord" THEN value.t \in {"null", "number"} ELSE Validator(key, value)

\* validator && !validator(value, key) : the write is refused.
RejectedNever(key, value) == FALSE
RejectedAnyTab(key, value) == key \in ValidatorKeys /\ ~ValidatorAnyTab(key, value)
RejectedAnyNumber(key, value) == key \in ValidatorKeys /\ ~ValidatorAnyNumber(key, value)
Rejected(key, value) == key \in ValidatorKeys /\ ~Validator(key, value)

\* ---------------------------------------------------------------- paths
\* A key or dotted path is the sequence of its segments: 'data.income' is
\* <<"data", "income">>, the top-level key 'activeTab' is <<"activeTab">>.
\* path.split('.').reduce((obj, key) => obj?.[key], state)
RECURSIVE GetNestedFromState(_, _)
GetNestedFromState(st, path) ==
    IF path = <<>> THEN st
    ELSE GetNestedFromState(GetProp(st, Head(path)), Tail(path))

\* getNested(path) reads the current state tree the same way.
GetNested(st, path) == GetNestedFromState(st, path)

\* The identity of an object literal {} created by setNested for a missing
\* intermediate segment.
VivifiedId == 90

\* setNested's walk and leaf assignment, on the tree below obj. The result is
\* the tree after the walk (st), the previous value of the leaf (old) and
\* whether a TypeError was thrown (err: a property cannot be created on a
\* primitive in strict code). Paths in the model do not lead through arrays.
RECURSIVE WalkAssign(_, _, _, _)
WalkAssign(obj, keys, lastkey, value) ==
    IF obj.t # "object" THEN [st |-> obj, old |-> Undefined, err |-> TRUE]
    ELSE IF keys = <<>>
        THEN [st |-> PutProp(obj, lastkey, value), old |-> GetProp(obj, lastkey), err |-> FALSE]
    ELSE LET key == Head(keys)
             child == IF Falsy(GetProp(obj, key)) THEN Obj(VivifiedId, <<>>) ELSE GetProp(obj, key)
             r == WalkAssign(child, Tail(keys), lastkey, value)
         IN  [st |-> PutProp(obj, key, r.st), old |-> r.old, err |-> r.err]

\* ------------------------------------------------------------- history
HistoryCap == 100

EntryByReference(key, oldValue, newValue) ==
    [key |-> key, oldValue |-> oldValue, newValue |-> newValue]
Entry(key, oldValue, newValue) ==
    [key |-> key, oldValue |-> DeepClone(oldValue), newValue |-> DeepClone(newValue)]

\* history.push(entry); if (history.length > 100) history.shift();
\* (the timestamp of an entry is not modelled)
PushHistoryNoEvict(h, entry) == Append(h, entry)
PushHistoryEvictNewest(h, entry) ==
    IF Len(h) + 1 > HistoryCap THEN h ELSE Append(h, entry)
PushHistory(h, entry) ==
    LET pushed == Append(h, entry)
    IN  IF Len(pushed) > HistoryCap THEN Tail(pushed) ELSE pushed

\* ------------------------------------------------------ listener registry
\* listeners : Map<string, Set<listener>>, as the sequence of its entries in
\* insertion order; an entry is [key, ls], ls the listeners of the Set in
\* insertion order. A listener is identified by a number (its function
\* identity).
KeyIndex(reg, key) ==
    IF \E i \in 1..Len(reg) : reg[i].key = key
        THEN CHOOSE i \in 1..Len(reg) : reg[i].key = key
        ELSE 0

IndexOf(seq, x) ==
    IF \E i \in 1..Len(seq) : seq[i] = x
        THEN CHOOSE i \in 1..Len(seq) : seq[i] = x
        ELSE 0

RemoveAt(seq, i) == [j \in 1..(Len(seq) - 1) |-> IF j < i THEN seq[j] ELSE seq[j + 1]]

ListenersOf(reg, key) ==
    IF KeyIndex(reg, key) = 0 THEN <<>> ELSE reg[KeyIndex(reg, key)].ls

\* ------------------------------------------------------------ the machine
\* The container and the calls in progress, as one record m:
\*   state, history, listeners : the fields of the StateManager
\*   initialState : the object store/AppState.ts exports, as it is now
\*   stack  : the notification rounds in progress, outermost first. A round is
\*            one run of notifyListeners' forEach; the listener of the last
\*            round is the code that is running, and it is the caller of any
\*            call made while the stack is not empty.
\*   raised : an exception has reached the outermost caller
\*   commits: the changes set has committed since the history was last
\*            cleared, as an observer of the container logs them
\*   invocations : how many times a listener has been invoked
\*
\* A round is [key, newValue, oldValue : the arguments of notifyListeners,
\*   pos   : how many entries of the Set forEach has visited,
\*   cur   : the listener that is running,
\*   alive : the Set being iterated is still the one the Map holds for key,
\*   src   : the operation that called notifyListeners,
\*   cont  : what the caller of notifyListeners does when it returns,
\*   snap, seen, gone : the listeners of the Set when the round began, those
\*           invoked so far in order, and those deleted from the Set since].
\*
\* What the caller of notifyListeners does next is [kind, and for the calls an
\* action-layer method still has to make: todo; for the loop of reset: kpos,
\* the entries of the Map it has visited, oldState, its copy of the state
\* before the reset, and as an observer of the reset sees them: owed, the
\* <<key, listener>> registered when reset was called, dropped, those
\* unsubscribed since, and log, those invoked by the rounds that have ended].
NoCont == [kind |-> "none", todo |-> <<>>, kpos |-> 0, oldState |-> Undefined,
           owed |-> {}, dropped |-> {}, log |-> <<>>]
TodoCont(todo) == [NoCont EXCEPT !.kind = "todo", !.todo = todo]
ResetCont(kpos, oldState, owed) ==
    [NoCont EXCEPT !.kind = "reset", !.kpos = kpos, !.oldState = oldState, !.owed = owed]

SetCall(key, value) == [op |-> "set", key |-> key, path |-> <<key>>, value |-> value]
NestedCall(path, value) == [op |-> "setNested", key |-> "", path |-> path, value |-> value]

Top(stack) == stack[Len(stack)]
Front(seq) == SubSeq(seq, 1, Len(seq) - 1)
Range(seq) == {seq[i] : i \in 1..Len(seq)}

RECURSIVE Continue(_, _)
RECURSIVE NotifyListeners(_, _, _, _, _, _)
RECURSIVE ListenerDone(_)
RECURSIVE OnListenerError(_)
RECURSIVE SetOp(_, _, _, _)
RECURSIVE SetNestedOp(_, _, _, _)
RECURSIVE RunTodo(_, _)
RECURSIVE ResetLoop(_, _)

\* notifyListeners(key, newValue, oldValue): forEach begins and invokes the
\* first listener of the Set; with no Set for key the caller goes on.
NotifyListenersSwapped(m, key, newValue, oldValue, src, cont) ==
    LET ls == ListenersOf(m.listeners, key)
    IN  IF ls = <<>> THEN Continue(m, cont)
        ELSE [m EXCEPT
                !.stack = Append(@, [key |-> key, newValue |-> oldValue, oldValue |-> newValue,
                                     pos |-> 1, cur |-> ls[1], alive |-> TRUE, src |-> src,
                                     cont |-> cont, snap |-> Range(ls), seen |-> <<ls[1]>>,
                                     gone |-> {}]),
                !.invocations = @ + 1]
NotifyListenersOfTopLevelKey(m, key, newValue, oldValue, src, cont) ==
    LET ls == ListenersOf(m.listeners, <<Head(key)>>)
    IN  IF ls = <<>> THEN Continue(m, cont)
        ELSE [m EXCEPT
                !.stack = Append(@, [key |-> <<Head(key)>>, newValue |-> newValue,
                                     oldValue |-> oldValue,
                                     pos |-> 1, cur |-> ls[1], alive |-> TRUE, src |-> src,
                                     cont |-> cont, snap |-> Range(ls), seen |-> <<ls[1]>>,
                                     gone |-> {}]),
                !.invocations = @ + 1]
NotifyListenersGuarded(m, key, newValue, oldValue, src, cont) ==
    LET ls == ListenersOf(m.listeners, key)
    IN  IF ls = <<>> \/ m.stack # <<>> THEN Continue(m, cont)
        ELSE [m EXCEPT
                !.stack = Append(@, [key |-> key, newValue |-> newValue, oldValue |-> oldValue,
                                     pos |-> 1, cur |-> ls[1], alive |-> TRUE, src |-> src,
                                     cont |-> cont, snap |-> Range(ls), seen |-> <<ls[1]>>,
                                     gone |-> {}]),
                !.invocations = @ + 1]
NotifyListeners(m, key, newValue, oldValue, src, cont) ==
    LET ls == ListenersOf(m.listeners, key)
    IN  IF ls = <<>> THEN Continue(m, cont)
        ELSE [m EXCEPT
                !.stack = Append(@, [key |-> key, newValue |-> newValue, oldValue |-> oldValue,
                                     pos |-> 1, cur |-> ls[1], alive |-> TRUE, src |-> src,
                                     cont |-> cont, snap |-> Range(ls), seen |-> <<ls[1]>>,
                                     gone |-> {}]),
                !.invocations = @ + 1]

\* The running listener has returned: forEach invokes the next entry of the
\* Set, or ends, and then the caller of notifyListeners goes on.
ListenerDoneFresh(m) ==
    LET f == Top(m.stack)
        ls == IF f.alive THEN ListenersOf(m.listeners, f.key) ELSE <<>>
    IN  IF f.pos < Len(ls)
        THEN [m EXCEPT
                !.stack[Len(m.stack)] = [f EXCEPT !.pos = f.pos + 1, !.cur = ls[f.pos + 1],
                                                  !.seen = Append(f.seen, ls[f.pos + 1]),
                                                  !.newValue = GetNested(m.state, f.key)],
                !.invocations = @ + 1]
        ELSE Continue([m EXCEPT !.stack = Front(m.stack)],
                      [f.cont EXCEPT !.log =
                          IF f.cont.kind = "reset"
                             THEN @ \o [i \in 1..Len(f.seen) |-> <<f.key, f.seen[i]>>]
                             ELSE @])
ListenerDone(m) ==
    LET f == Top(m.stack)
        ls == IF f.alive THEN ListenersOf(m.listeners, f.key) ELSE <<>>
    IN  IF f.pos < Len(ls)
        THEN [m EXCEPT
                !.stack[Len(m.stack)] = [f EXCEPT !.pos = f.pos + 1, !.cur = ls[f.pos + 1],
                                                  !.seen = Append(f.seen, ls[f.pos + 1])],
                !.invocations = @ + 1]
        ELSE Continue([m EXCEPT !.stack = Front(m.stack)],
                      [f.cont EXCEPT !.log =
                          IF f.cont.kind = "reset"
                             THEN @ \o [i \in 1..Len(f.seen) |-> <<f.key, f.seen[i]>>]
                             ELSE @])

\* The running listener has thrown: the catch of notifyListeners logs the
\* error and forEach goes on.
OnListenerErrorUncaught(m) == [m EXCEPT !.stack = <<>>, !.raised = TRUE]
OnListenerError(m) == ListenerDone(m)

\* An exception thrown by the container itself propagates to the caller: the
\* running listener if there is one (it is taken not to catch it), else the
\* outermost caller.
Raise(m) ==
    IF m.stack = <<>> THEN [m EXCEPT !.raised = TRUE] ELSE OnListenerError(m)

Continue(m, cont) ==
    CASE cont.kind = "todo" -> RunTodo(m, cont.todo)
      [] cont.kind = "reset" -> ResetLoop(m, cont)
      [] OTHER -> m

\* The objects parts of the state tree have been written to in place and the
\* tree is now st: whatever else references one of them (a history entry that
\* kept a reference, the initial snapshot if the state shared an object with
\* it) sees the write.
Written(m, st, parts) ==
    LET ids == {x.id : x \in parts}
        h == m.history
    IN  [m EXCEPT !.state = st,
                  !.history =
                      IF \E i \in 1..Len(h) :
                            Touches(h[i].oldValue, ids) \/ Touches(h[i].newValue, ids)
                         THEN SyncHistoryTo(h, parts, ids) ELSE h,
                  !.initialState = IF Touches(@, ids) THEN SyncTo(@, parts, ids) ELSE @]

\* this.state[key] = value has written to the root object of the state tree,
\* which is now st: the root is referenced by this.state only, and by the
\* initial snapshot if the state were the snapshot itself.
RootWritten(m, st) ==
    [m EXCEPT !.state = st, !.initialState = IF @.id = st.id THEN st ELSE @]

\* set(key, value), followed by what its caller does next (cont).
SetOpNotifyFirst(m, key, value, cont) ==
    LET oldValue == GetProp(m.state, key)
    IN  IF DeepEqual(oldValue, value) THEN Continue(m, cont)
        ELSE IF Rejected(key, value) THEN Continue(m, cont)
        ELSE NotifyListeners(m, <<key>>, value, oldValue, "set", cont)
SetOp(m, key, value, cont) ==
    LET oldValue == GetProp(m.state, key)
        w == RootWritten(m, PutProp(m.state, key, value))
    IN  IF DeepEqual(oldValue, value) THEN Continue(m, cont)
        ELSE IF Rejected(key, value) THEN Continue(m, cont)
        ELSE NotifyListeners(
                [w EXCEPT !.history = PushHistory(w.history, Entry(key, oldValue, value)),
                          !.commits = Append(m.commits, <<key, oldValue, value>>)],
                <<key>>, value, oldValue, "set", cont)

\* setNested(path, value), followed by what its caller does next. The walk
\* writes in place to the objects of the state tree.
SetNestedOpChecked(m, path, value, cont) ==
    IF path = <<>> \/ path[Len(path)] = "" THEN Continue(m, cont)
    ELSE IF DeepEqual(GetNested(m.state, path), value) THEN Continue(m, cont)
    ELSE IF Len(path) = 1 /\ Rejected(path[1], value) THEN Continue(m, cont)
    ELSE LET r == WalkAssign(m.state, Front(path), path[Len(path)], value)
             w == Written(m, r.st, OnPath(r.st, Front(path)))
         IN  IF r.err THEN Raise(w)
             ELSE NotifyListeners(w, path, value, r.old, "setNested", cont)
SetNestedOp(m, path, value, cont) ==
    IF path = <<>> \/ path[Len(path)] = "" THEN Continue(m, cont)
    ELSE LET r == WalkAssign(m.state, Front(path), path[Len(path)], value)
             w == Written(m, r.st, OnPath(r.st, Front(path)))
         IN  IF r.err THEN Raise(w)
             ELSE NotifyListeners(w, path, value, r.old, "setNested", cont)

\* The calls an action-layer method still has to make, in order.
RunTodo(m, todo) ==
    IF todo = <<>> THEN m
    ELSE IF Head(todo).op = "set"
        THEN SetOp(m, Head(todo).key, Head(todo).value, TodoCont(Tail(todo)))
        ELSE SetNestedOp(m, Head(todo).path, Head(todo).value, TodoCont(Tail(todo)))

\* reset(): the loop over the entries of the listeners Map, kpos of which
\* have been visited.
ResetLoopStaleValue(m, cont) ==
    IF cont.kpos >= Len(m.listeners) THEN m
    ELSE LET key == m.listeners[cont.kpos + 1].key
         IN  NotifyListeners(m, key, GetNestedFromState(cont.oldState, key),
                             GetNestedFromState(cont.oldState, key), "reset",
                             [cont EXCEPT !.kpos = @ + 1])
ResetLoopChangedOnly(m, cont) ==
    IF cont.kpos >= Len(m.listeners) THEN m
    ELSE LET key == m.listeners[cont.kpos + 1].key
         IN  IF DeepEqual(GetNested(m.state, key), GetNestedFromState(cont.oldState, key))
                THEN ResetLoop(m, [cont EXCEPT !.kpos = @ + 1])
                ELSE NotifyListeners(m, key, GetNested(m.state, key),
                                     GetNestedFromState(cont.oldState, key), "reset",
                                     [cont EXCEPT !.kpos = @ + 1])
ResetLoop(m, cont) ==
    IF cont.kpos >= Len(m.listeners) THEN m
    ELSE LET key == m.listeners[cont.kpos + 1].key
         IN  NotifyListeners(m, key, GetNested(m.state, key),
                             GetNestedFromState(cont.oldState, key), "reset",
                             [cont EXCEPT !.kpos = @ + 1])

\* The <<key, listener>> the registry holds.
Registered(reg) ==
    UNION {{<<reg[i].key, l>> : l \in Range(reg[i].ls)} : i \in 1..Len(reg)}

ResetOpClearsHistory(m) ==
    LET oldState == DeepClone(m.state)
    IN  ResetLoop([m EXCEPT !.state = DeepClone(m.initialState), !.history = <<>>],
                  ResetCont(0, oldState, Registered(m.listeners)))
ResetOpByReference(m) ==
    LET oldState == DeepClone(m.state)
    IN  ResetLoop([m EXCEPT !.state = m.initialState],
                  ResetCont(0, oldState, Registered(m.listeners)))
ResetOp(m) ==
    LET oldState == DeepClone(m.state)
    IN  ResetLoop([m EXCEPT !.state = DeepClone(m.initialState)],
                  ResetCont(0, oldState, Registered(m.listeners)))

\* subscribe(key, listener)
SubscribeOpAppends(m, key, l) ==
    LET reg == IF KeyIndex(m.listeners, key) = 0
                  THEN Append(m.listeners, [key |-> key, ls |-> <<>>])
                  ELSE m.listeners
        i == KeyIndex(reg, key)
    IN  [m EXCEPT !.listeners = [reg EXCEPT ![i].ls = Append(@, l)]]
SubscribeOp(m, key, l) ==
    LET reg == IF KeyIndex(m.listeners, key) = 0
                  THEN Append(m.listeners, [key |-> key, ls |-> <<>>])
                  ELSE m.listeners
        i == KeyIndex(reg, key)
    IN  [m EXCEPT !.listeners =
            IF l \in Range(reg[i].ls) THEN reg ELSE [reg EXCEPT ![i].ls = Append(@, l)]]

\* The closure subscribe(key, listener) returned is called. Deleting an entry
\* of a Set or Map that is being iterated moves the entries after it up by
\* one, so an iteration that has passed it has one entry less behind it; a Set
\* removed from the Map stays empty for the rounds that iterate it.
UnsubscribeKeepsListener(m, key, l) == m
UnsubscribeNoPrune(m, key, l) ==
    LET i == KeyIndex(m.listeners, key)
        ls == m.listeners[i].ls
        j == IndexOf(ls, l)
    IN  IF i = 0 \/ j = 0 THEN m
        ELSE [m EXCEPT
                !.listeners = [@ EXCEPT ![i].ls = RemoveAt(ls, j)],
                !.stack = [d \in 1..Len(m.stack) |->
                    LET f == m.stack[d]
                    IN  IF f.key = key /\ f.alive
                        THEN [f EXCEPT !.pos = IF j <= f.pos THEN f.pos - 1 ELSE f.pos,
                                       !.gone = f.gone \cup {l}]
                        ELSE f]]
UnsubscribeDropsKey(m, key, l) ==
    LET i == KeyIndex(m.listeners, key)
    IN  IF i = 0 THEN m
        ELSE [m EXCEPT
                !.listeners = RemoveAt(m.listeners, i),
                !.stack = [d \in 1..Len(m.stack) |->
                    [m.stack[d] EXCEPT !.alive = @ /\ m.stack[d].key # key]]]
UnsubscribeOp(m, key, l) ==
    LET i == KeyIndex(m.listeners, key)
        ls == m.listeners[i].ls
        j == IndexOf(ls, l)
        ls1 == IF j = 0 THEN ls ELSE RemoveAt(ls, j)
        emptied == ls1 = <<>>
    IN  IF i = 0 THEN m
        ELSE [m EXCEPT
                !.listeners = IF emptied THEN RemoveAt(m.listeners, i)
                              ELSE [@ EXCEPT ![i].ls = ls1],
                !.stack = [d \in 1..Len(m.stack) |->
                    LET f == m.stack[d]
                        onKey == f.key = key /\ f.alive
                    IN  [f EXCEPT
                           !.pos = IF onKey /\ j > 0 /\ j <= f.pos THEN f.pos - 1 ELSE f.pos,
                           !.gone = IF onKey /\ j > 0 THEN f.gone \cup {l} ELSE f.gone,
                           !.alive = f.alive /\ ~(f.key = key /\ emptied),
                           !.cont.kpos = IF f.cont.kind = "reset" /\ emptied /\ i <= f.cont.kpos
                                            THEN f.cont.kpos - 1 ELSE f.cont.kpos,
                           !.cont.dropped = IF f.cont.kind = "reset" /\ j > 0
                                               THEN @ \cup {<<key, l>>} ELSE @]]]

\* ---------------------------------------------------------- action layer
\* StateActions: each method is the calls it makes on the StateManager.
SwitchTabOp(m, tabName) == SetOp(m, "activeTab", tabName, NoCont)

SelectRecordOpAtomic(m, type, id) ==
    IF Rejected("currentRecordType", type) \/ Rejected("currentRecord", id) THEN m
    ELSE RunTodo(m, <<SetCall("currentRecordType", type), SetCall("currentRecord", id)>>)
SelectRecordOp(m, type, id) ==
    RunTodo(m, <<SetCall("currentRecordType", type), SetCall("currentRecord", id)>>)

ClearSelectedRecordOp(m) ==
    RunTodo(m, <<SetCall("currentRecord", Null), SetCall("currentRecordType", Null)>>)

SetHomeOfficeMethodOp(m, method) == SetOp(m, "selectedHomeOfficeMethod", method, NoCont)

\* batchUpdate(updates): updates is the sequence of the entries [path, value]
\* of the map, in the order of Object.entries; a key that includes '.' has
\* more than one segment.
BatchUpdateOpAtomic(m, updates) ==
    IF \E i \in 1..Len(updates) :
            Len(updates[i].path) = 1 /\ Rejected(updates[i].path[1], updates[i].value)
        THEN m
        ELSE RunTodo(m, [i \in 1..Len(updates) |->
                            IF Len(updates[i].path) > 1
                                THEN NestedCall(updates[i].path, updates[i].value)
                                ELSE SetCall(updates[i].path[1], updates[i].value)])
BatchUpdateOp(m, updates) ==
    RunTodo(m, [i \in 1..Len(updates) |->
                    IF Len(updates[i].path) > 1
                        THEN NestedCall(updates[i].path, updates[i].value)
                        ELSE SetCall(updates[i].path[1], updates[i].value)])

\* The identity of the i-th array or object a method of the action layer
\* creates during the n-th call made on the container: a new object,
\* distinct from those created by the other calls.
FreshId(n, i) == 40 + 7 * n + i

\* showModal(modalId), called as the n-th call: a copy of modalStates with
\* modalId set is passed to set.
ShowModalOp(m, modalId, n) ==
    SetOp(m, "modalStates",
          PutProp(Obj(FreshId(n, 0), GetProp(m.state, "modalStates").f), modalId, Bool(TRUE)),
          NoCont)

\* clearAllFormStates(), called as the n-th call: set('formStates', {})
ClearAllFormStatesOp(m, n) == SetOp(m, "formStates", Obj(FreshId(n, 0), <<>>), NoCont)

\* clearAllData(), called as the n-th call: setNested('data', {income: [], ...})
ClearAllDataOpKeepsRecords(m, n) ==
    SetNestedOp(m, <<"data">>,
                Obj(FreshId(n, 0),
                    [k \in DOMAIN GetProp(m.state, "data").f
                          \cup {"income", "expenses", "mileage", "utilities",
                                "taxPayments", "savingsGoals"} |->
                        CASE k = "income" -> Arr(FreshId(n, 1), <<>>)
                          [] k = "expenses" -> Arr(FreshId(n, 2), <<>>)
                          [] k = "mileage" -> Arr(FreshId(n, 3), <<>>)
                          [] k = "utilities" -> Arr(FreshId(n, 4), <<>>)
                          [] k = "taxPayments" -> Arr(FreshId(n, 5), <<>>)
                          [] k = "savingsGoals" -> Arr(FreshId(n, 6), <<>>)
                          [] OTHER -> GetProp(m.state, "data").f[k]]),
                NoCont)
ClearAllDataOp(m, n) ==
    SetNestedOp(m, <<"data">>,
                Obj(FreshId(n, 0), [income |-> Arr(FreshId(n, 1), <<>>),
                                    expenses |-> Arr(FreshId(n, 2), <<>>),
                                    mileage |-> Arr(FreshId(n, 3), <<>>),
                                    utilities |-> Arr(FreshId(n, 4), <<>>),
                                    taxPayments |-> Arr(FreshId(n, 5), <<>>),
                                    savingsGoals |-> Arr(FreshId(n, 6), <<>>)]),
                NoCont)

\* addNotification(notification), called as the n-th call:
\* set('notifications', [...get('notifications'), notification])
AddNotificationOp(m, notification, n) ==
    SetOp(m, "notifications",
          Arr(FreshId(n, 0), Append(GetProp(m.state, "notifications").e, notification)),
          NoCont)

\* array.filter((_, i) => i !== index): the elements in order, without the
\* one at index (counted from 0) if there is one.
FilterOutIndex(es, index) ==
    IF index \in 0..(Len(es) - 1) THEN RemoveAt(es, index + 1) ELSE es

\* removeNotification(index), called as the n-th call
RemoveNotificationOp(m, index, n) ==
    SetOp(m, "notifications",
          Arr(FreshId(n, 0), FilterOutIndex(GetProp(m.state, "notifications").e, index)),
          NoCont)

\* clearNotifications(), called as the n-th call: set('notifications', [])
ClearNotificationsOp(m, n) == SetOp(m, "notifications", Arr(FreshId(n, 0), <<>>), NoCont)

\* v.length : the number of elements of an array; undefined on the objects
\* and on undefined wrapped by || []. The collections of the model hold no
\* strings.
Length(v) == IF v.t = "array" THEN Num(Len(v.e)) ELSE Undefined

\* v > 0 : undefined is compared as NaN.
GreaterThanZero(v) == v.t = "number" /\ v.p # "NaN" /\ v.n > 0

\* getIncomeData() and the like: getNested('data.<name>') || []
GetCollectionData(st, name) ==
    LET v == GetNested(st, <<"data", name>>)
    IN  IF Falsy(v) THEN Arr(0, <<>>) ELSE v

\* getOverviewData(), getHomeOfficeData(), getTaxSettingsData():
\* getNested('data.<name>')
GetRecordData(st, name) == GetNested(st, <<"data", name>>)

\* hasDataForTab(tabName), on the state st
HasDataForTabOp(st, tabName) ==
    CASE tabName = Str("overview") -> ~Falsy(GetRecordData(st, "overview"))
      [] tabName = Str("income") -> GreaterThanZero(Length(GetCollectionData(st, "income")))
      [] tabName = Str("expenses") -> GreaterThanZero(Length(GetCollectionData(st, "expenses")))
      [] tabName = Str("deductions") ->
            \/ GreaterThanZero(Length(GetCollectionData(st, "mileage")))
            \/ GreaterThanZero(Length(GetCollectionData(st, "utilities")))
            \/ ~Falsy(GetRecordData(st, "homeOffice"))
      [] tabName = Str("taxes") ->
            \/ ~Falsy(GetRecordData(st, "taxSettings"))
            \/ GreaterThanZero(Length(GetCollectionData(st, "taxPayments")))
      [] tabName = Str("goals") -> GreaterThanZero(Length(GetCollectionData(st, "savingsGoals")))
      [] OTHER -> FALSE

\* getDataCounts(), on the state st
GetDataCountsOp(st) ==
    [income |-> Length(GetCollectionData(st, "income")),
     expenses |-> Length(GetCollectionData(st, "expenses")),
     mileage |-> Length(GetCollectionData(st, "mileage")),
     utilities |-> Length(GetCollectionData(st, "utilities")),
     taxPayments |-> Length(GetCollectionData(st, "taxPayments")),
     savingsGoals |-> Length(GetCollectionData(st, "savingsGoals"))]

\* getState(), called for the n-th time
GetStateByReference(m, n) == m.state
GetStateOp(m, n) == DeepCloneTo(m.state, n * HeldOffset)

\* clearHistory()
ClearHistoryOp(m) == [m EXCEPT !.history = <<>>, !.commits = <<>>]

\* ----------------------------------------------------------------- state
VARIABLES
    state,      \* StateManager.state
    history,    \* StateManager.history
    listeners,  \* StateManager.listeners
    stack,      \* the notification rounds in progress
    raised,     \* an exception has reached the outermost caller
    commits,    \* the changes committed by set since the history was cleared
    invocations, \* how many times a listener has been invoked
    last,       \* the last step: the call made and its arguments
    calls,      \* how many calls of the container's methods have been made
    closures,   \* the <<key, listener>> for which subscribe has returned an
                \* unsubscribe closure
    unsubbed,   \* those whose closure has been called since the listener was
                \* last subscribed under the key
    spent,      \* those of which a closure has been called at least once
    held,       \* the records getState() has returned to callers, who keep them
    initialState \* the initial snapshot store/AppState.ts exports

vars == <<state, history, listeners, stack, raised, commits, invocations, last, calls,
          closures, unsubbed, spent, held, initialState>>

Machine == [state |-> state, history |-> history, listeners |-> listeners,
            stack |-> stack, raised |-> raised, commits |-> commits,
            invocations |-> invocations, initialState |-> initialState]

Apply(m) ==
    /\ state' = m.state
    /\ history' = m.history
    /\ listeners' = m.listeners
    /\ stack' = m.stack
    /\ raised' = m.raised
    /\ commits' = m.commits
    /\ invocations' = m.invocations
    /\ initialState' = m.initialState

\* ---------------------------------------------------------------- bounds
MaxCalls == 4       \* calls of the container's methods in one behaviour
MaxDepth == 2       \* notification rounds nested in one another
MaxHeld == 2        \* records obtained from getState() that callers keep

\* The arrays and objects callers hold and pass to the container.
Note1 == Obj(24, [message |-> Str("saved"), type |-> Str("info")])
Note2 == Obj(25, [message |-> Str("saved"), type |-> Str("info")])
ListA == Arr(21, <<Note1>>)
ListB == Arr(22, <<Note1>>)
ListC == Arr(23, <<Note2>>)
DataD == Obj(30, [income |-> Arr(31, <<>>), expenses |-> Arr(32, <<>>)])
HomeOfficeD == Obj(33, [squareFeet |-> Num(120)])
TaxSettingsD == Obj(34, [rate |-> Num(25)])
OverviewD == Obj(35, [netIncome |-> Num(0)])

\* ---------------------------------------------------------------- actions
\* A call is made by the outermost caller (the stack is empty) or by the
\* listener that is running.
Call(m, step) ==
    /\ calls < MaxCalls
    /\ Len(m.stack) <= MaxDepth
    /\ Apply(m)
    /\ last' = step
    /\ calls' = calls + 1

Write(m, step) == Call(m, step) /\ UNCHANGED <<closures, unsubbed, spent, held>>

Step(act, key, value, l) == [act |-> act, key |-> key, value |-> value, l |-> l]
NoStep == Step("", <<>>, Undefined, 0)

\* set(key, value)
Set(key, value) ==
    Write(SetOp(Machine, key, value, NoCont), Step("set", <<key>>, value, 0))

\* set(key, get(key))
SetSame(key) ==
    Write(SetOp(Machine, key, GetProp(state, key), NoCont),
          Step("set", <<key>>, GetProp(state, key), 0))

SetNested(path, value) ==
    Write(SetNestedOp(Machine, path, value, NoCont), Step("setNested", path, value, 0))

Reset == Write(ResetOp(Machine), Step("reset", <<>>, Undefined, 0))

SwitchTab(tabName) ==
    Write(SwitchTabOp(Machine, tabName), Step("switchTab", <<"activeTab">>, tabName, 0))

SelectRecord(type, id) ==
    Write(SelectRecordOp(Machine, type, id), Step("selectRecord", <<type.p>>, id, 0))

ClearSelectedRecord ==
    Write(ClearSelectedRecordOp(Machine), Step("clearSelectedRecord", <<>>, Undefined, 0))

SetHomeOfficeMethod(method) ==
    Write(SetHomeOfficeMethodOp(Machine, method),
          Step("setHomeOfficeMethod", <<"selectedHomeOfficeMethod">>, method, 0))

BatchUpdate(updates) ==
    Write(BatchUpdateOp(Machine, updates), Step("batchUpdate", <<>>, updates, 0))

ShowModal(modalId) ==
    Write(ShowModalOp(Machine, modalId, calls),
          Step("showModal", <<"modalStates">>,
               PutProp(Obj(FreshId(calls, 0), GetProp(state, "modalStates").f), modalId, Bool(TRUE)),
               0))

ClearAllFormStates ==
    Write(ClearAllFormStatesOp(Machine, calls),
          Step("clearAllFormStates", <<"formStates">>, Obj(FreshId(calls, 0), <<>>), 0))

ClearAllData ==
    Write(ClearAllDataOp(Machine, calls),
          Step("clearAllData", <<"data">>, GetNested(ClearAllDataOp(Machine, calls).state, <<"data">>), 0))

AddNotification(notification) ==
    Write(AddNotificationOp(Machine, notification, calls),
          Step("addNotification", <<"notifications">>, notification, 0))

RemoveNotification(index) ==
    Write(RemoveNotificationOp(Machine, index, calls),
          Step("removeNotification", <<"notifications">>, Undefined, index))

ClearNotifications ==
    Write(ClearNotificationsOp(Machine, calls),
          Step("clearNotifications", <<"notifications">>, Undefined, 0))

\* hasDataForTab(tabName) and getDataCounts() read the state; the step
\* records what they return.
Query(step) ==
    /\ calls < MaxCalls
    /\ last' = step
    /\ calls' = calls + 1
    /\ UNCHANGED <<state, history, listeners, stack, raised, commits, invocations,
                   closures, unsubbed, spent, held, initialState>>

HasDataForTab(tabName) ==
    Query(Step("hasDataForTab", <<tabName.p>>, Bool(HasDataForTabOp(state, tabName)), 0))

GetDataCounts ==
    Query(Step("getDataCounts", <<>>, Obj(FreshId(calls, 0), GetDataCountsOp(state)), 0))

ClearHistory == Write(ClearHistoryOp(Machine), Step("clearHistory", <<>>, Undefined, 0))

\* subscribe(key, listener); the step records whether the Set of key held the
\* listener already.
Subscribe(key, l) ==
    /\ Call(SubscribeOp(Machine, key, l),
            Step("subscribe", key, Bool(l \in Range(ListenersOf(listeners, key))), l))
    /\ closures' = closures \cup {<<key, l>>}
    /\ unsubbed' = unsubbed \ {<<key, l>>}
    /\ UNCHANGED <<spent, held>>

Unsubscribe(key, l) ==
    /\ <<key, l>> \in closures
    /\ Call(UnsubscribeOp(Machine, key, l), Step("unsubscribe", key, Undefined, l))
    /\ unsubbed' = unsubbed \cup {<<key, l>>}
    /\ spent' = spent \cup {<<key, l>>}
    /\ UNCHANGED <<closures, held>>

\* getState(): the caller keeps the record it is given.
GetState ==
    /\ calls < MaxCalls
    /\ Len(held) < MaxHeld
    /\ held' = Append(held, GetStateOp(Machine, Len(held) + 1))
    /\ last' = Step("getState", <<>>, Undefined, Len(held) + 1)
    /\ calls' = calls + 1
    /\ UNCHANGED <<state, history, listeners, stack, raised, commits, invocations,
                   closures, unsubbed, spent, initialState>>

\* A caller assigns value at path in the i-th record it got from getState():
\* the write is made in place and is seen wherever one of the objects
\* written to is referenced.
MutateHeld(i, path, value) ==
    /\ i \in 1..Len(held)
    /\ LET written == AssignAt(held[i], path, value)
       IN  /\ held' = [j \in 1..Len(held) |-> Sync(held[j], written)]
           /\ state' = Sync(state, written)
           /\ history' = SyncHistory(history, written)
           /\ initialState' = Sync(initialState, written)
    /\ last' = Step("mutate", path, value, i)
    /\ UNCHANGED <<listeners, stack, raised, commits, invocations, calls,
                   closures, unsubbed, spent>>

ListenerReturns ==
    /\ stack # <<>>
    /\ Apply(ListenerDone(Machine))
    /\ last' = Step("return", Top(stack).key, Undefined, Top(stack).cur)
    /\ UNCHANGED <<calls, closures, unsubbed, spent, held>>

ListenerThrows ==
    /\ stack # <<>>
    /\ Apply(OnListenerError(Machine))
    /\ last' = Step("throw", Top(stack).key, Undefined, Top(stack).cur)
    /\ UNCHANGED <<calls, closures, unsubbed, spent, held>>

\* new StateManager(initialState), as store/index.ts constructs it
Constructed ==
    [state |-> DeepClone(InitialState), history |-> <<>>, listeners |-> <<>>,
     stack |-> <<>>, raised |-> FALSE, commits |-> <<>>, invocations |-> 0,
     initialState |-> InitialState]

\* The container is in the state m, and no call has been counted yet.
StartIn(m) ==
    /\ state = m.state
    /\ history = m.history
    /\ listeners = m.listeners
    /\ stack = m.stack
    /\ raised = m.raised
    /\ commits = m.commits
    /\ invocations = m.invocations
    /\ initialState = m.initialState
    /\ last = NoStep
    /\ calls = 0
    /\ closures = {}
    /\ unsubbed = {}
    /\ spent = {}
    /\ held = <<>>

Init == StartIn(Constructed)

\* ------------------------------------------------- the container in use
\* Callers and listeners that write, subscribe and unsubscribe.
SubPairs == {<<<<"activeTab">>, 1>>, <<<<"activeTab">>, 2>>, <<<<"data", "income">>, 1>>}

Next ==
    \/ \E tabName \in {Str("income"), Str("not-a-tab")} : SwitchTab(tabName)
    \/ \E value \in {NaN, Bool(TRUE)} : Set("isLoading", value)
    \/ \E value \in {ListA, ListB, ListC} : Set("notifications", value)
    \/ \E key \in {"activeTab", "isLoading", "notifications"} : SetSame(key)
    \/ SetNested(<<"data", "income">>, ListA)
    \/ Reset
    \/ ClearHistory
    \/ \E pair \in SubPairs : Subscribe(pair[1], pair[2])
    \/ \E pair \in SubPairs : Unsubscribe(pair[1], pair[2])
    \/ ListenerReturns
    \/ ListenerThrows

Spec == Init /\ [][Next]_vars

\* ------------------------------------- the validated keys, no nested write
\* Callers and listeners that use set, reset and the action layer with
\* undotted keys only, passing valid and invalid values.
TopPairs == {<<<<"activeTab">>, 1>>, <<<<"currentRecord">>, 2>>}

TopWrites ==
    {<<"activeTab", Str("income")>>, <<"activeTab", Str("not-a-tab")>>,
     <<"currentRecord", Num(1)>>, <<"currentRecord", Num(0)>>, <<"currentRecord", NaN>>,
     <<"currentRecordType", Str("income")>>, <<"currentRecordType", Str("bogus")>>,
     <<"selectedHomeOfficeMethod", Str("bogus")>>,
     <<"selectHomeOfficeMethod", Str("actual")>>, <<"selectHomeOfficeMethod", Str("bogus")>>}

TopSelections == {<<Str("mileage"), Num(2)>>, <<Str("income"), Num(0)>>, <<Str("bogus"), Num(2)>>}

TopBatches ==
    {<<[path |-> <<"activeTab">>, value |-> Str("not-a-tab")],
       [path |-> <<"currentRecord">>, value |-> Str("1")],
       [path |-> <<"selectedHomeOfficeMethod">>, value |-> Str("actual")]>>}

NextTop ==
    \/ \E w \in TopWrites : Set(w[1], w[2])
    \/ SwitchTab(Str("goals"))
    \/ \E sel \in TopSelections : SelectRecord(sel[1], sel[2])
    \/ ClearSelectedRecord
    \/ SetHomeOfficeMethod(Str("simplified"))
    \/ \E updates \in TopBatches : BatchUpdate(updates)
    \/ Reset
    \/ \E pair \in TopPairs : Subscribe(pair[1], pair[2])
    \/ \E pair \in TopPairs : Unsubscribe(pair[1], pair[2])
    \/ ListenerReturns
    \/ ListenerThrows

SpecTop == Init /\ [][NextTop]_vars

\* ------------------------------------------------ a history near its cap
\* The container after n calls of setLoading that each change isLoading.
RECURSIVE AfterToggles(_, _)
AfterToggles(m, n) ==
    LET next == SetOp(m, "isLoading", Bool(GetProp(m.state, "isLoading") = Bool(FALSE)), NoCont)
    IN  IF n = 0 \/ next.raised THEN m ELSE AfterToggles(next, n - 1)

\* How many entries short of the cap the history is at the start.
HistoryGap == 2

InitHist == StartIn(AfterToggles(Constructed, HistoryCap - HistoryGap))

HistPairs == {<<<<"isLoading">>, 1>>, <<<<"activeTab">>, 2>>}

NextHist ==
    \/ \E value \in {Bool(TRUE), Bool(FALSE)} : Set("isLoading", value)
    \/ \E tabName \in {Str("income"), Str("taxes")} : SwitchTab(tabName)
    \/ Reset
    \/ ClearHistory
    \/ \E pair \in HistPairs : Subscribe(pair[1], pair[2])
    \/ \E pair \in HistPairs : Unsubscribe(pair[1], pair[2])
    \/ ListenerReturns
    \/ ListenerThrows

SpecHist == InitHist /\ [][NextHist]_vars

\* ------------------------------- an instance given a snapshot of its own
\* A snapshot a caller passes to the constructor instead of the exported
\* initialState: the 'income' tab is active and the loading flag is set.
CustomSnapshot ==
    Obj(12, [activeTab |-> Str("income"),
             isLoading |-> Bool(TRUE),
             currentRecord |-> Null,
             currentRecordType |-> Null,
             selectedHomeOfficeMethod |-> Null,
             formStates |-> Obj(13, <<>>),
             modalStates |-> Obj(14, <<>>),
             notifications |-> Arr(15, <<>>),
             data |-> Obj(16, [income |-> Arr(17, <<>>),
                               expenses |-> Arr(18, <<>>),
                               mileage |-> Arr(19, <<>>),
                               utilities |-> Arr(20, <<>>),
                               taxPayments |-> Arr(26, <<>>),
                               savingsGoals |-> Arr(27, <<>>)])])

\* new StateManager(snapshot)
ConstructedWith(snapshot) == [Constructed EXCEPT !.state = DeepClone(snapshot)]

InitCtor == StartIn(ConstructedWith(CustomSnapshot))

SpecCtor == InitCtor /\ [][Next]_vars

\* ------------------------------------------------ a reset after writes
\* The container after switchTab('income') and setIncomeData(ListA).
AfterWrites ==
    SetNestedOp(SetOp(Constructed, "activeTab", Str("income"), NoCont),
                <<"data", "income">>, ListA, NoCont)

InitReset == StartIn(AfterWrites)

ResetPairs ==
    {<<<<"activeTab">>, 1>>, <<<<"activeTab">>, 2>>, <<<<"data", "income">>, 1>>,
     <<<<"isLoading">>, 1>>}

NextReset ==
    \/ Reset
    \/ SwitchTab(Str("taxes"))
    \/ \E pair \in ResetPairs : Subscribe(pair[1], pair[2])
    \/ \E pair \in ResetPairs : Unsubscribe(pair[1], pair[2])
    \/ ListenerReturns
    \/ ListenerThrows

SpecReset == InitReset /\ [][NextReset]_vars

\* ----------------------------------------------------- nested writes
\* Callers and listeners that write through dotted paths: an entity
\* collection, a path below a field that does not exist, a validated key with
\* a value its validator refuses, and a path below the string activeTab holds.
NestedWrites ==
    {<<<<"data", "income">>, ListA>>,
     <<<<"data", "newField", "inner">>, Num(5)>>,
     <<<<"activeTab">>, Str("not-a-tab")>>,
     <<<<"activeTab", "panel", "title">>, Num(5)>>}

NestedPairs ==
    {<<<<"data">>, 1>>, <<<<"data", "income">>, 1>>, <<<<"data", "income">>, 2>>,
     <<<<"activeTab">>, 1>>}

NextNested ==
    \/ \E w \in NestedWrites : SetNested(w[1], w[2])
    \/ ClearAllData
    \/ Set("data", DataD)
    \/ \E pair \in NestedPairs : Subscribe(pair[1], pair[2])
    \/ \E pair \in NestedPairs : Unsubscribe(pair[1], pair[2])
    \/ ListenerReturns
    \/ ListenerThrows

SpecNested == Init /\ [][NextNested]_vars

\* --------------------------------------------- objects and arrays in set
\* Callers and listeners that pass new objects and arrays to set: modal and
\* form states through the action layer, notification lists directly.
EqPairs == {<<<<"modalStates">>, 1>>, <<<<"formStates">>, 1>>, <<<<"notifications">>, 1>>}

NextEq ==
    \/ ShowModal("help")
    \/ ClearAllFormStates
    \/ \E value \in {ListA, ListB, ListC} : Set("notifications", value)
    \/ \E pair \in EqPairs : Subscribe(pair[1], pair[2])
    \/ \E pair \in EqPairs : Unsubscribe(pair[1], pair[2])
    \/ ListenerReturns
    \/ ListenerThrows

SpecEq == Init /\ [][NextEq]_vars

\* ------------------------------------------------- references handed out
\* Callers that keep what getState() returns and write on it, pass an object
\* of their own to set and go on writing below it through setNested.
AliasPairs == {<<<<"data", "income">>, 1>>}

HeldWrites == {<<<<"isLoading">>, Bool(TRUE)>>, <<<<"data", "income">>, ListA>>}

NextAlias ==
    \/ GetState
    \/ \E i \in 1..MaxHeld, w \in HeldWrites : MutateHeld(i, w[1], w[2])
    \/ Set("data", DataD)
    \/ SetNested(<<"data", "income">>, ListB)
    \/ Reset
    \/ \E pair \in AliasPairs : Subscribe(pair[1], pair[2])
    \/ \E pair \in AliasPairs : Unsubscribe(pair[1], pair[2])
    \/ ListenerReturns
    \/ ListenerThrows

SpecAlias == Init /\ [][NextAlias]_vars

\* -------------------------------------- paths through top-level scalars
\* Callers and listeners that write below the top-level keys that hold false,
\* null, 0, a number and a string, and that reset.
PathWrites ==
    {<<<<"isLoading", "since">>, Num(5)>>,
     <<<<"currentRecord", "id">>, Num(5)>>,
     <<<<"currentRecord">>, Num(0)>>,
     <<<<"activeTab", "panel">>, Num(5)>>}

PathPairs == {<<<<"isLoading", "since">>, 1>>, <<<<"currentRecord">>, 1>>}

NextPaths ==
    \/ \E w \in PathWrites : SetNested(w[1], w[2])
    \/ Set("currentRecord", Num(1))
    \/ ClearAllData
    \/ Reset
    \/ \E pair \in PathPairs : Subscribe(pair[1], pair[2])
    \/ \E pair \in PathPairs : Unsubscribe(pair[1], pair[2])
    \/ ListenerReturns
    \/ ListenerThrows

SpecPaths == Init /\ [][NextPaths]_vars

\* ------------------------------------------- listeners that write
\* Two listeners of 'activeTab' that, while being notified, switch the tab
\* again, replace the income collection, subscribe and unsubscribe.
ReentrantPairs == {<<<<"activeTab">>, 1>>, <<<<"activeTab">>, 2>>}

NextReentrant ==
    \/ \E tabName \in {Str("income"), Str("taxes")} : SwitchTab(tabName)
    \/ SetNested(<<"data", "income">>, ListA)
    \/ \E pair \in ReentrantPairs : Subscribe(pair[1], pair[2])
    \/ \E pair \in ReentrantPairs : Unsubscribe(pair[1], pair[2])
    \/ ListenerReturns
    \/ ListenerThrows

SpecReentrant == Init /\ [][NextReentrant]_vars

\* A listener that has been invoked returns or throws: it does not run for
\* ever.
SpecReentrantLive == SpecReentrant /\ WF_vars(ListenerReturns \/ ListenerThrows)

\* --------------------------------------------------- batches of updates
\* Callers and listeners that pass maps to batchUpdate: one whose first
\* entry the validator of activeTab refuses, one whose second entry is the
\* value isLoading holds at the start, and one whose first entry leads
\* through the string activeTab holds.
BatchMaps ==
    {<<[path |-> <<"activeTab">>, value |-> Str("not-a-tab")],
       [path |-> <<"isLoading">>, value |-> Bool(TRUE)],
       [path |-> <<"data", "income">>, value |-> ListA]>>,
     <<[path |-> <<"activeTab">>, value |-> Str("income")],
       [path |-> <<"isLoading">>, value |-> Bool(FALSE)],
       [path |-> <<"currentRecord">>, value |-> Num(1)]>>,
     <<[path |-> <<"activeTab", "panel">>, value |-> Num(5)],
       [path |-> <<"isLoading">>, value |-> Bool(TRUE)]>>}

BatchPairs ==
    {<<<<"activeTab">>, 1>>, <<<<"isLoading">>, 1>>, <<<<"data", "income">>, 2>>}

NextBatch ==
    \/ \E updates \in BatchMaps : BatchUpdate(updates)
    \/ \E pair \in BatchPairs : Subscribe(pair[1], pair[2])
    \/ \E pair \in BatchPairs : Unsubscribe(pair[1], pair[2])
    \/ ListenerReturns
    \/ ListenerThrows

SpecBatch == Init /\ [][NextBatch]_vars

\* ------------------------------------------------- the selected record
\* Callers and listeners that select a record, with a type or an id the
\* validators refuse or accept, and clear the selection.
Selections ==
    {<<Str("income"), Num(0)>>, <<Str("bogus"), Num(2)>>,
     <<Str("mileage"), Num(2)>>, <<Str("bogus"), Num(0)>>}

SelectPairs == {<<<<"currentRecordType">>, 1>>, <<<<"currentRecord">>, 2>>}

NextSelect ==
    \/ \E sel \in Selections : SelectRecord(sel[1], sel[2])
    \/ ClearSelectedRecord
    \/ \E pair \in SelectPairs : Subscribe(pair[1], pair[2])
    \/ \E pair \in SelectPairs : Unsubscribe(pair[1], pair[2])
    \/ ListenerReturns
    \/ ListenerThrows

SpecSelect == Init /\ [][NextSelect]_vars

\* ------------------------------------------------ the notification list
\* Callers and listeners that add notifications, remove them by an index
\* inside or outside the list, and clear the list.
NoteIndexes == {-1, 0, 1, 2}

NotePairs == {<<<<"notifications">>, 1>>}

NextNotes ==
    \/ \E notification \in {Note1, Note2} : AddNotification(notification)
    \/ \E index \in NoteIndexes : RemoveNotification(index)
    \/ ClearNotifications
    \/ \E pair \in NotePairs : Subscribe(pair[1], pair[2])
    \/ \E pair \in NotePairs : Unsubscribe(pair[1], pair[2])
    \/ ListenerReturns
    \/ ListenerThrows

SpecNotes == Init /\ [][NextNotes]_vars

\* ------------------------------------------------------ the entity data
\* Callers and listeners that store collections and records under data
\* through the setters of the action layer, replace data by an object that
\* has two of the collections only, clear the data and ask which tabs have
\* data.
DataWrites ==
    {<<<<"data", "overview">>, OverviewD>>,
     <<<<"data", "income">>, ListA>>,
     <<<<"data", "mileage">>, ListB>>,
     <<<<"data", "utilities">>, ListC>>,
     <<<<"data", "homeOffice">>, HomeOfficeD>>,
     <<<<"data", "homeOffice">>, Undefined>>,
     <<<<"data", "taxSettings">>, TaxSettingsD>>,
     <<<<"data", "taxPayments">>, ListA>>}

DataTabs == {Str("overview"), Str("income"), Str("expenses"), Str("deductions"),
             Str("taxes"), Str("goals"), Str("reports")}

DataPairs == {<<<<"data">>, 1>>}

NextData ==
    \/ \E w \in DataWrites : SetNested(w[1], w[2])
    \/ Set("data", DataD)
    \/ ClearAllData
    \/ \E tabName \in DataTabs : HasDataForTab(tabName)
    \/ GetDataCounts
    \/ \E pair \in DataPairs : Subscribe(pair[1], pair[2])
    \/ \E pair \in DataPairs : Unsubscribe(pair[1], pair[2])
    \/ ListenerReturns
    \/ ListenerThrows

SpecData == Init /\ [][NextData]_vars

\* ================================================================ claims

\* C1: when set(key, value) is called for a key that has a registered
\* validator with a value the validator rejects, the call returns normally and
\* changes nothing (state tree, history) and no listener is invoked; with a
\* value the validator accepts that differs from the stored one, the key holds
\* the value after the commit.
C1_ValidationGate ==
    [][\A w \in TopWrites :
          Set(w[1], w[2]) /\ w[1] \in ValidatorKeys =>
             /\ ~Validator(w[1], w[2]) =>
                   state' = state /\ history' = history /\ stack' = stack /\ ~raised'
             /\ Validator(w[1], w[2]) /\ w[2] # GetProp(state, w[1]) =>
                   GetProp(state', w[1]) = w[2]]_vars

\* A rejected set('activeTab', 'not-a-tab') has just been made while a
\* listener is subscribed under 'activeTab' and after an accepted write.
C1_Witness ==
    /\ last = Step("set", <<"activeTab">>, Str("not-a-tab"), 0)
    /\ ListenersOf(listeners, <<"activeTab">>) # <<>>
    /\ GetProp(state, "activeTab") = Str("income")

\* The six tab names and the six record types of the specification.
SixTabs == {Str("overview"), Str("income"), Str("expenses"), Str("deductions"),
            Str("taxes"), Str("goals")}
SixRecordTypes == {Str("income"), Str("expenses"), Str("mileage"), Str("utilities"),
                   Str("tax-payments"), Str("savings-goals")}

\* C2: whatever values set, reset, switchTab and batchUpdate are called with
\* (undotted keys), activeTab is one of the six tab names.
C2_ActiveTabValid == GetProp(state, "activeTab") \in SixTabs

\* A listener being notified of a change of activeTab has just tried to set
\* an invalid tab name.
C2_Witness ==
    /\ last = Step("set", <<"activeTab">>, Str("not-a-tab"), 0)
    /\ stack # <<>>
    /\ Top(stack).key = <<"activeTab">>
    /\ GetProp(state, "activeTab") = Str("goals")

\* C3: selectedHomeOfficeMethod is "simplified", "actual" or null in every
\* state reached through set and reset (also through setHomeOfficeMethod and
\* batchUpdate).
C3_HomeOfficeMethodValid ==
    GetProp(state, "selectedHomeOfficeMethod") \in {Str("simplified"), Str("actual"), Null}

\* C4: currentRecord is null or a number greater than 0, and currentRecordType
\* is null or one of the six record types.
C4_SelectedRecordValid ==
    /\ LET id == GetProp(state, "currentRecord")
       IN  id = Null \/ (id.t = "number" /\ id # NaN /\ id.n > 0)
    /\ GetProp(state, "currentRecordType") \in SixRecordTypes \cup {Null}

\* selectRecord('bogus', 2) has just been called: the type was refused and
\* the id stored.
C4_Witness ==
    /\ last = Step("selectRecord", <<"bogus">>, Num(2), 0)
    /\ GetProp(state, "currentRecord") = Num(2)
    /\ GetProp(state, "currentRecordType") \in {Null, Str("income")}

\* C5: set(k, v) with v identical to the stored value, or an array equal to
\* it element by element, changes nothing (state tree, history) and invokes no
\* listener; in particular set(k, get(k)), after any sequence of operations.
C5_SetSameIsNoOp ==
    [][/\ \A key \in {"activeTab", "isLoading", "notifications"} :
            SetSame(key) => state' = state /\ history' = history /\ stack' = stack
       /\ \A value \in {ListA, ListB} :
            Set("notifications", value) /\ GetProp(state, "notifications") \in {ListA, ListB}
                => state' = state /\ history' = history /\ stack' = stack]_vars

\* C6: getHistory() never has more than 100 entries, in any state a caller
\* or a listener (also one running inside a set) can observe.
C6_HistoryBound == Len(history) <= 100

\* A listener is running inside a set whose entry was the 101st.
C6_Witness ==
    /\ stack # <<>>
    /\ Top(stack).src = "set"
    /\ Len(commits) = 101
    /\ Len(history) = 100

\* A value without the identities of its arrays and objects.
RECURSIVE Content(_)
Content(v) ==
    [v EXCEPT !.id = 0,
              !.e = [i \in 1..Len(v.e) |-> Content(v.e[i])],
              !.f = [k \in DOMAIN v.f |-> Content(v.f[k])]]

\* C7: after n committed set calls since construction or the last
\* clearHistory, getHistory() is the last min(n, 100) committed changes (key,
\* old value, new value), oldest first: only the oldest entry is evicted when
\* the 101st is appended.
C7_HistoryIsFIFO ==
    LET n == Len(commits)
        k == IF n < 100 THEN n ELSE 100
    IN  /\ Len(history) = k
        /\ \A i \in 1..k :
              /\ history[i].key = commits[n - k + i][1]
              /\ Content(history[i].oldValue) = Content(commits[n - k + i][2])
              /\ Content(history[i].newValue) = Content(commits[n - k + i][3])

\* Two entries have been evicted.
C7_Witness == Len(commits) = 102 /\ Len(history) = 100

\* How many times x occurs in seq.
Occurrences(seq, x) == Cardinality({i \in 1..Len(seq) : seq[i] = x})

\* The writes of Spec that go through set, as <<key, value>>.
SetCalls ==
    {<<"activeTab", Str("income")>>, <<"activeTab", Str("not-a-tab")>>,
     <<"isLoading", NaN>>, <<"isLoading", Bool(TRUE)>>,
     <<"notifications", ListA>>, <<"notifications", ListB>>, <<"notifications", ListC>>}

\* This step is the call set(key, value), directly or through switchTab.
IsSetCall(key, value) ==
    last' \in {Step("set", <<key>>, value, 0), Step("switchTab", <<key>>, value, 0)}

\* What a committed set(key, value) has done when the first listener is
\* entered (or when it returns, if there is none): the key holds the value,
\* one entry {key, oldValue, newValue} is at the end of the history, and the
\* first listener registered under key, and no other, is invoked with (value,
\* oldValue, key).
CommitStep(key, value) ==
    LET oldValue == GetProp(state, key)
        ls == ListenersOf(listeners, <<key>>)
    IN  /\ GetProp(state', key) = value
        /\ Len(history') = Len(history) + 1
        /\ SubSeq(history', 1, Len(history)) = history
        /\ history'[Len(history')].key = key
        /\ Content(history'[Len(history')].oldValue) = Content(oldValue)
        /\ Content(history'[Len(history')].newValue) = Content(value)
        /\ IF ls = <<>>
              THEN stack' = stack /\ invocations' = invocations
              ELSE /\ Front(stack') = stack
                   /\ invocations' = invocations + 1
                   /\ Top(stack').key = <<key>>
                   /\ Top(stack').cur = ls[1]
                   /\ Top(stack').newValue = value
                   /\ Top(stack').oldValue = oldValue

\* The round on top of the stack goes on with one more listener.
RoundGoesOn ==
    /\ Len(stack') = Len(stack)
    /\ Front(stack') = Front(stack)
    /\ Len(Top(stack').seen) = Len(Top(stack).seen) + 1
    /\ invocations' = invocations + 1
    /\ Top(stack').key = Top(stack).key
    /\ Top(stack').newValue = Top(stack).newValue
    /\ Top(stack').oldValue = Top(stack).oldValue
    /\ Top(stack').cur \in Range(ListenersOf(listeners, Top(stack).key))

\* A step of the round a set started, after the running listener has returned
\* or thrown: the next listener registered under the key is invoked with the
\* same arguments, or the round ends and set returns, each of the listeners
\* owed an invocation having been invoked exactly once in the round.
RoundStep(owed) ==
    last'.act \in {"return", "throw"} /\ Top(stack).src = "set" =>
        \/ RoundGoesOn
        \/ /\ stack' = Front(stack)
           /\ invocations' = invocations
           /\ \A l \in owed : Occurrences(Top(stack).seen, l) = 1

\* C8: a committed set(key, value) stores value under key, appends exactly
\* one history entry {key, oldValue, newValue} and invokes exactly once, with
\* (value, oldValue, key), every listener that was registered under key at
\* the commit and has not been unsubscribed during the round, and no listener
\* registered under another key.
C8_CommitNotifies ==
    [][/\ \A w \in SetCalls :
            /\ IsSetCall(w[1], w[2])
            /\ ~DeepEqual(GetProp(state, w[1]), w[2])
            /\ ~Rejected(w[1], w[2])
            => CommitStep(w[1], w[2])
       /\ stack # <<>> => RoundStep(Top(stack).snap \ Top(stack).gone)]_vars

\* From activeTab = 'overview', switchTab('income') has invoked the two
\* listeners on 'activeTab' and returned, leaving one history entry.
C8_Witness ==
    /\ last = Step("return", <<"activeTab">>, Undefined, 2)
    /\ stack = <<>>
    /\ invocations = 2
    /\ GetProp(state, "activeTab") = Str("income")
    /\ Len(history) = 1
    /\ history[1].key = "activeTab"
    /\ history[1].oldValue = Str("overview")
    /\ history[1].newValue = Str("income")

\* C8 as stated: every listener registered under key at the commit is
\* invoked exactly once, also one that is unsubscribed during the round.
C8_EveryListenerOnce ==
    [][/\ \A w \in SetCalls :
            /\ IsSetCall(w[1], w[2])
            /\ ~DeepEqual(GetProp(state, w[1]), w[2])
            /\ ~Rejected(w[1], w[2])
            => CommitStep(w[1], w[2])
       /\ stack # <<>> => RoundStep(Top(stack).snap)]_vars

\* C9: when a listener throws during a round that set, setNested or reset
\* started, the exception does not reach the caller, the state and the
\* history stay as the write left them, the callers below are not disturbed,
\* and as long as a listener registered under the key since the round began
\* has not been invoked the round goes on with the same (newValue, oldValue,
\* key).
C9_ListenerIsolation ==
    [][last'.act = "throw" =>
          /\ ~raised'
          /\ state' = state
          /\ history' = history
          /\ listeners' = listeners
          /\ SubSeq(stack', 1, Len(stack) - 1) = Front(stack)
          /\ (Top(stack).snap \ Top(stack).gone) \ Range(Top(stack).seen) # {}
                => RoundGoesOn]_vars

\* The first of two listeners on 'activeTab' has thrown and the second is
\* running, called with ('income', 'overview', 'activeTab').
C9_Witness ==
    /\ last = Step("throw", <<"activeTab">>, Undefined, 1)
    /\ stack # <<>>
    /\ Top(stack).cur = 2
    /\ Top(stack).seen = <<1, 2>>
    /\ Top(stack).key = <<"activeTab">>
    /\ Top(stack).newValue = Str("income")
    /\ Top(stack).oldValue = Str("overview")
    /\ GetProp(state, "activeTab") = Str("income")

\* C10: once the closure subscribe(key, L) returned has been called, L is
\* not invoked for key by a later set, setNested or reset unless it has been
\* subscribed again, also when the closure is called by another listener of
\* the round in which L was still to be invoked.
C10_NoCallAfterUnsubscribe ==
    [][invocations' # invocations =>
          <<Top(stack').key, Top(stack').cur>> \notin unsubbed']_vars

\* Listener 1 on 'activeTab' is running and has just unsubscribed listener 2,
\* which was registered when the round began and has not been invoked.
C10_Witness ==
    /\ last = Step("unsubscribe", <<"activeTab">>, Undefined, 2)
    /\ stack # <<>>
    /\ Top(stack).key = <<"activeTab">>
    /\ Top(stack).cur = 1
    /\ Top(stack).snap = {1, 2}
    /\ Top(stack).seen = <<1>>
    /\ <<<<"activeTab">>, 2>> \in unsubbed

\* C11: a call of an unsubscribe function after its first call leaves the
\* listener registry exactly as it was, whatever was done in between
\* (writes, resets, subscribing the same or other listeners under the key).
C11_UnsubscribeIdempotent ==
    [][last'.act = "unsubscribe" /\ <<last'.key, last'.l>> \in spent
          => listeners' = listeners]_vars

\* C12: whatever subscribe and unsubscribe calls have been made, by callers
\* or by listeners, the listener registry holds no key whose set of listeners
\* is empty.
C12_NoEmptyListenerSet ==
    \A i \in 1..Len(listeners) : listeners[i].ls # <<>>

\* The only listener of 'activeTab' has just been unsubscribed by a running
\* listener, another key staying registered: 'activeTab' has left the
\* registry.
C12_Witness ==
    /\ last = Step("unsubscribe", <<"activeTab">>, Undefined, 1)
    /\ stack # <<>>
    /\ KeyIndex(listeners, <<"activeTab">>) = 0
    /\ KeyIndex(listeners, <<"data", "income">>) # 0

\* C13: after any sequence of set and setNested calls, reset() leaves every
\* top-level key with the value it has in the snapshot the StateManager was
\* constructed with, for any instance and any snapshot; here the instance
\* constructed with CustomSnapshot.
C13_ResetRestoresSnapshot ==
    [][last'.act = "reset" =>
          \A k \in DOMAIN CustomSnapshot.f :
              Content(GetProp(state', k)) = Content(GetProp(CustomSnapshot, k))]_vars

\* A round of reset begins in this step: reset has read newValue from the
\* fresh state and oldValue from its copy of the state before the reset, at
\* the key of the round.
ResetRoundBegins ==
    /\ stack' # <<>>
    /\ Top(stack').src = "reset"
    /\ Len(Top(stack').seen) = 1
    /\ invocations' = invocations + 1

ResetArguments ==
    /\ last'.act = "reset" /\ ResetRoundBegins =>
          Content(Top(stack').cont.oldState) = Content(state)
    /\ ResetRoundBegins =>
          /\ Top(stack').newValue = GetNested(state', Top(stack').key)
          /\ Content(Top(stack').oldValue) =
                Content(GetNestedFromState(Top(stack').cont.oldState, Top(stack').key))

\* The keys whose value before the reset differs from their initial value.
ChangedBefore(oldState, key) ==
    Content(GetNestedFromState(oldState, key)) # Content(GetNested(InitialState, key))

\* A step of reset's notifications after the running listener has returned or
\* thrown: the round goes on with the same arguments, the round of the next
\* key begins, or reset returns, each of the <<key, listener>> owed an
\* invocation having been invoked exactly once by the reset.
ResetStep(exemptDropped) ==
    stack # <<>> /\ last'.act \in {"return", "throw"} /\ Top(stack).src = "reset" =>
        LET f == Top(stack)
            log == f.cont.log \o [i \in 1..Len(f.seen) |-> <<f.key, f.seen[i]>>]
            owed == IF exemptDropped
                       THEN f.cont.owed \ f.cont.dropped
                       ELSE {pair \in f.cont.owed : ChangedBefore(f.cont.oldState, pair[1])}
        IN  \/ RoundGoesOn
            \/ Len(stack') = Len(stack) /\ ResetRoundBegins
            \/ /\ stack' = Front(stack)
               /\ invocations' = invocations
               /\ \A pair \in owed : Occurrences(log, pair) = 1

\* C14: reset() invokes exactly once every listener that was registered when
\* it was called and has not been unsubscribed during the reset (on a key
\* that changed or not), with (newValue, oldValue, key): oldValue a copy of
\* the value the key held just before the reset, newValue the value the key
\* holds in the restored state when its listeners are notified.
C14_ResetNotifies ==
    [][ResetArguments /\ ResetStep(TRUE)]_vars

\* reset() has returned after invoking the two listeners of 'activeTab' and
\* the listener of 'data.income'.
C14_Witness ==
    /\ last.act = "return"
    /\ stack = <<>>
    /\ invocations = 3
    /\ calls = 4
    /\ Len(history) = 1
    /\ GetProp(state, "activeTab") = Str("overview")
    /\ Registered(listeners) =
          {<<<<"activeTab">>, 1>>, <<<<"activeTab">>, 2>>, <<<<"data", "income">>, 1>>}

\* C14 as stated: every listener registered on a key whose value differs from
\* its initial value is invoked exactly once, also one that is unsubscribed
\* during the reset.
C14_EveryListenerOfChangedKey ==
    [][ResetArguments /\ ResetStep(FALSE)]_vars

\* Every location of the tree old that is not on the path holds the same
\* value in the tree new.
RECURSIVE OffPathSame(_, _, _)
OffPathSame(old, new, path) ==
    \/ path = <<>>
    \/ old.t # "object"
    \/ /\ new.t = "object"
       /\ \A k \in DOMAIN old.f \ {Head(path)} : k \in DOMAIN new.f /\ new.f[k] = old.f[k]
       /\ DOMAIN new.f \subseteq DOMAIN old.f \cup {Head(path)}
       /\ OffPathSame(GetProp(old, Head(path)), GetProp(new, Head(path)), Tail(path))

\* One of the intermediate segments of the path does not exist in the tree.
MissingSegment(st, path) ==
    \E n \in 1..(Len(path) - 1) : GetNested(st, SubSeq(path, 1, n)) = Undefined

\* C15: for every dotted path one or more of whose intermediate segments do
\* not exist, setNested(path, value) returns normally, getNested(path) returns
\* value afterwards, and no location off the path has changed.
C15_AutoVivification ==
    [][last'.act = "setNested" /\ MissingSegment(state, last'.key) =>
          /\ ~raised'
          /\ GetNested(state', last'.key) = last'.value
          /\ OffPathSame(state, state', last'.key)]_vars

\* Every intermediate segment of the path that holds a value in the tree
\* holds an object (or a falsy value, which setNested replaces): the walk of
\* setNested reaches the leaf.
ThroughObjects(st, path) ==
    \A n \in 1..(Len(path) - 1) :
        LET v == GetNested(st, SubSeq(path, 1, n))
        IN  Falsy(v) \/ v.t = "object"

\* What setNested(path, value) has done when the first listener is entered
\* (or when it returns, if there is none): the leaf holds value, and the
\* first listener registered under the full path, and no other, is invoked
\* with (value, the previous value of the leaf, path).
NestedCommitStep(path, value) ==
    LET oldValue == GetNested(state, path)
        ls == ListenersOf(listeners, path)
    IN  /\ GetNested(state', path) = value
        /\ IF ls = <<>>
              THEN stack' = stack /\ invocations' = invocations
              ELSE /\ Front(stack') = stack
                   /\ invocations' = invocations + 1
                   /\ Top(stack').key = path
                   /\ Top(stack').cur = ls[1]
                   /\ Top(stack').newValue = value
                   /\ Top(stack').oldValue = oldValue

C17_ExactPathListeners ==
    [][/\ last'.act \in {"setNested", "clearAllData", "set"} =>
            /\ /\ last'.act = "set" \/ ThroughObjects(state, last'.key)
               /\ invocations' # invocations
               => /\ invocations' = invocations + 1
                  /\ Front(stack') = stack
                  /\ Top(stack').key = last'.key
                  /\ Top(stack').cur \in Range(ListenersOf(listeners, last'.key))
            /\ /\ last'.act # "set"
               /\ ThroughObjects(state, last'.key)
               /\ ListenersOf(listeners, last'.key) # <<>>
               => invocations' = invocations + 1
       /\ /\ stack # <<>>
          /\ last'.act \in {"return", "throw"}
          /\ Top(stack).src \in {"set", "setNested"}
          => \/ RoundGoesOn
             \/ stack' = Front(stack) /\ invocations' = invocations]_vars

\* A listener of 'data' and a listener of 'data.income' are registered, and
\* setNested('data.income', ListA) has invoked the second, not the first.
C17_Witness ==
    /\ last = Step("setNested", <<"data", "income">>, ListA, 0)
    /\ ListenersOf(listeners, <<"data">>) # <<>>
    /\ Len(stack) = 1
    /\ Top(stack).key = <<"data", "income">>
    /\ invocations = 1

\* The arrays a and b have the same length and, position by position, the
\* same element (the same object, or the same primitive).
SameElements(a, b) ==
    /\ a.t = "array" /\ b.t = "array"
    /\ Len(a.e) = Len(b.e)
    /\ \A i \in 1..Len(a.e) : a.e[i] = b.e[i]

\* C18: set compares objects by reference and arrays element by element: a
\* new object with the contents of the stored one is a change (committed, one
\* history entry, listeners notified), so showModal on a modal that is open
\* and clearAllFormStates on empty form states commit; an array whose
\* elements are those of the stored array is not a change, an array of other
\* objects with the same contents is.
C18_ReferenceEquality ==
    [][/\ last'.act \in {"showModal", "clearAllFormStates"} =>
            CommitStep(last'.key[1], last'.value)
       /\ last'.act = "set" /\ last'.key = <<"notifications">> =>
            IF SameElements(GetProp(state, "notifications"), last'.value)
               THEN state' = state /\ history' = history /\ stack' = stack
               ELSE CommitStep("notifications", last'.value)]_vars

\* showModal('help') has been called while the modal was open: a second
\* history entry, whose old and new values have the same contents, and the
\* listener of 'modalStates' is running.
C18_Witness ==
    /\ last.act = "showModal"
    /\ Len(history) = 2
    /\ history[2].key = "modalStates"
    /\ Content(history[2].oldValue) = Content(history[2].newValue)
    /\ GetProp(history[2].oldValue, "help") = Bool(TRUE)
    /\ stack # <<>>
    /\ Top(stack).key = <<"modalStates">>
    /\ Top(stack).oldValue # Top(stack).newValue

\* C19: getState() returns a deep clone: a write a caller makes on the
\* record it was given, at any depth, changes neither the state tree (what
\* get, getNested and a later getState return) nor the history nor another
\* record getState returned, and the records returned share no array or object
\* with one another or with the state tree when they are returned.
C19_GetStateIsDeepClone ==
    [][/\ last'.act = "mutate" =>
            /\ state' = state
            /\ history' = history
            /\ \A j \in 1..Len(held) : j # last'.l => held'[j] = held[j]
       /\ last'.act = "getState" =>
            /\ Len(held') = Len(held) + 1
            /\ Content(held'[Len(held')]) = Content(state)
            /\ Ids(held'[Len(held')]) \cap Ids(state') = {}
            /\ \A j \in 1..Len(held) : Ids(held'[Len(held')]) \cap Ids(held[j]) = {}]_vars

\* A caller has got two records from getState() and has replaced the income
\* collection of the first: the second and the state tree still hold the
\* collection they held.
C19_Witness ==
    /\ last = Step("mutate", <<"data", "income">>, ListA, 1)
    /\ Len(held) = 2
    /\ GetNested(held[1], <<"data", "income">>) = ListA
    /\ GetNested(held[2], <<"data", "income">>) # ListA
    /\ GetNested(state, <<"data", "income">>) # ListA
    /\ Content(held[2]) = Content(state)

\* C20: once set has appended a history entry, its oldValue and newValue do
\* not change as a result of a later set, setNested (also one that writes in
\* place below the same top-level key) or reset, as long as the entry is in
\* the history.
C20_HistoryEntriesAreSnapshots ==
    [][last'.act # "clearHistory" =>
          /\ Len(history') >= Len(history)
          /\ \A i \in 1..Len(history) : history'[i] = history[i]]_vars

\* set('data', DataD) has appended an entry and setNested('data.income',
\* ListB) has then written in place on DataD, which the state tree holds: the
\* entry still shows the empty income collection DataD had.
C20_Witness ==
    /\ last = Step("setNested", <<"data", "income">>, ListB, 0)
    /\ GetProp(state, "data").id = DataD.id
    /\ GetNested(state, <<"data", "income">>) = ListB
    /\ Len(history) = 1
    /\ history[1].key = "data"
    /\ Content(history[1].newValue) = Content(DataD)

\* C21: the initial snapshot is never written to: after any sequence of set,
\* setNested, reset and action-layer calls made by callers and listeners that
\* pass objects of their own, the object store/AppState.ts exports has its
\* original contents, and every reset leaves the state tree with these
\* contents, in objects the snapshot does not share.
C21_InitialSnapshotIntact ==
    [][/\ initialState' = InitialState
       /\ last'.act = "reset" =>
            /\ Content(state') = Content(InitialState)
            /\ Ids(state') \cap Ids(initialState') = {}]_vars

\* After setIncomeData and switchTab, a reset, then switchTab('taxes') (whose
\* history entry starts from 'overview'), and a second reset that has just
\* restored the contents of the snapshot.
C21_Witness ==
    /\ last.act = "reset"
    /\ Len(history) = 2
    /\ history[2].oldValue = Str("overview")
    /\ history[2].newValue = Str("taxes")
    /\ Content(state) = Content(InitialState)

\* The nine top-level keys and the six entity collections of the
\* specification.
NineKeys == {"activeTab", "isLoading", "currentRecord", "currentRecordType",
             "selectedHomeOfficeMethod", "formStates", "modalStates", "notifications", "data"}
SixCollections == {"income", "expenses", "mileage", "utilities", "taxPayments", "savingsGoals"}

\* C22: in every state, after any sequence of set, setNested, reset and
\* action-layer calls, the root record is an object that has the nine
\* top-level keys, and after construction and after every reset data holds
\* the six entity collections, each an empty array.
C22_AllKeysPresent ==
    /\ state.t = "object"
    /\ NineKeys \subseteq DOMAIN state.f
    /\ last = NoStep \/ last.act = "reset" =>
          /\ GetProp(state, "data").t = "object"
          /\ SixCollections \subseteq DOMAIN GetProp(state, "data").f
          /\ \A c \in SixCollections :
                /\ GetNested(state, <<"data", c>>).t = "array"
                /\ GetNested(state, <<"data", c>>).e = <<>>

\* setNested('currentRecord.id', 5) has made currentRecord an object, set has
\* stored a record id over it, and a reset has just been made.
C22_Witness ==
    /\ last.act = "reset"
    /\ Len(history) = 1
    /\ history[1].key = "currentRecord"
    /\ GetProp(history[1].oldValue, "id") = Num(5)
    /\ GetProp(state, "currentRecord") = Null

\* C23: set, setNested and reset return normally to their caller for every
\* key, path and value, also for a path one of whose intermediate segments
\* holds a primitive value: no exception reaches the outermost caller.
C23_NoWriteFails == ~raised

\* C28: a setNested whose path passes through an intermediate segment that
\* holds a value other than an object (false, 0, null, a string) leaves that
\* segment with the value it held.
C28_IntermediateValueKept ==
    [][last'.act = "setNested" =>
          \A n \in 1..(Len(last'.key) - 1) :
              LET v == GetNested(state, SubSeq(last'.key, 1, n))
              IN  v # Undefined /\ v.t # "object" =>
                     GetNested(state', SubSeq(last'.key, 1, n)) = v]_vars

\* C24: every committed write appends one history entry for the change, by
\* the time the first listener is invoked: a set that changes the value, and
\* a setNested that reaches its leaf (so setIncomeData and clearAllData),
\* whose entry holds the value written.
C24_EveryWriteInHistory ==
    [][/\ last'.act = "set" /\ state' # state => Len(history') = Len(history) + 1
       /\ last'.act \in {"setNested", "clearAllData"} /\ ThroughObjects(state, last'.key) =>
            /\ Len(history') = Len(history) + 1
            /\ Content(history'[Len(history')].newValue) = Content(last'.value)]_vars

\* The last entry of the history h records the change of key from oldValue to
\* newValue.
EndsWith(h, key, oldValue, newValue) ==
    /\ h # <<>>
    /\ h[Len(h)].key = key
    /\ Content(h[Len(h)].oldValue) = Content(oldValue)
    /\ Content(h[Len(h)].newValue) = Content(newValue)

\* C25: when set(key, value) invokes the first listener of its round, the
\* state holds value under key and the history, of at most 100 entries, ends
\* with the entry of this change; the later listeners of the round are
\* invoked with the state and the history as the listeners before them left
\* them.
C25_CommitPrecedesNotification ==
    [][invocations' # invocations /\ Top(stack').src = "set" =>
          LET f == Top(stack')
          IN  IF Len(f.seen) = 1
                 THEN /\ GetProp(state', f.key[1]) = f.newValue
                      /\ EndsWith(history', f.key[1], f.oldValue, f.newValue)
                      /\ Len(history') <= HistoryCap
                 ELSE state' = state /\ history' = history]_vars

\* The second listener of 'activeTab' is invoked with ('income', 'overview')
\* after the first has returned without writing: activeTab holds 'income' and
\* the history ends with the entry of the change.
C25_Witness ==
    /\ last = Step("return", <<"activeTab">>, Undefined, 1)
    /\ Len(stack) = 1
    /\ Top(stack).cur = 2
    /\ Top(stack).newValue = Str("income")
    /\ GetProp(state, "activeTab") = Str("income")
    /\ EndsWith(history, "activeTab", Str("overview"), Str("income"))

\* C25 as stated: whenever a listener is invoked because of set(key, value),
\* the state holds value under key and the history ends with the entry of
\* this change.
C25_ListenerSeesCommit ==
    [][invocations' # invocations /\ Top(stack').src = "set" =>
          LET f == Top(stack')
          IN  /\ GetProp(state', f.key[1]) = f.newValue
              /\ EndsWith(history', f.key[1], f.oldValue, f.newValue)]_vars

\* A call made by a running listener is complete when the step ends: a write
\* that changes the tab has committed (state, history entry) and has invoked
\* the first listener of its own round, on top of the round of its caller;
\* subscribe and unsubscribe leave the rounds in progress where they are.
NestedCallCompletes ==
    stack # <<>> =>
        /\ last'.act = "switchTab" /\ state' # state =>
              /\ GetProp(state', "activeTab") = last'.value
              /\ EndsWith(history', "activeTab", GetProp(state, "activeTab"), last'.value)
              /\ ListenersOf(listeners, last'.key) # <<>> =>
                    /\ Front(stack') = stack
                    /\ Top(stack').key = last'.key
                    /\ Top(stack').newValue = last'.value
                    /\ invocations' = invocations + 1
        /\ last'.act = "setNested" => GetNested(state', last'.key) = last'.value
        /\ last'.act \in {"subscribe", "unsubscribe"} =>
              Len(stack') = Len(stack) /\ invocations' = invocations

\* The rounds below the one that is running wait: none of them invokes a
\* listener or ends before the rounds above it have ended.
OuterRoundsWait ==
    /\ Len(stack') >= Len(stack) - 1
    /\ \A d \in 1..(Len(stack) - 1) :
          /\ stack'[d].seen = stack[d].seen
          /\ stack'[d].cur = stack[d].cur
          /\ stack'[d].newValue = stack[d].newValue
          /\ stack'[d].oldValue = stack[d].oldValue

\* C26: a call a listener makes during a notification (set, setNested,
\* subscribe, unsubscribe) runs to completion inside the notification, its
\* commit, history entry and round of notifications happening before the
\* round of its caller goes on; and when the listeners make finitely many
\* calls and return, every round ends: the outermost call returns.
C26_ReentrantCallsComplete ==
    /\ [][NestedCallCompletes /\ OuterRoundsWait]_vars
    /\ (stack # <<>>) ~> (stack = <<>>)

\* switchTab('income') has returned after listener 1 called switchTab('taxes')
\* while being notified: four invocations, two history entries.
C26_Witness ==
    /\ last.act \in {"return", "throw"}
    /\ stack = <<>>
    /\ calls = 4
    /\ invocations = 4
    /\ Len(history) = 2
    /\ GetProp(state, "activeTab") = history[2].newValue

\* Listener 1 is running in the round d of the stack, which a set of
\* 'activeTab' started, listeners 1 and 2 are registered under the key in
\* that order, in the Set the round iterates, and listener 2 has not been
\* invoked in the round.
FirstOfTwoRuns(d) ==
    /\ Len(stack) >= d
    /\ stack[d].key = <<"activeTab">>
    /\ stack[d].src = "set"
    /\ stack[d].cur = 1
    /\ stack[d].seen = <<1>>
    /\ stack[d].alive
    /\ stack[d].pos = 1
    /\ ListenersOf(listeners, <<"activeTab">>) = <<1, 2>>

\* C27: listeners 1 and 2 are registered under 'activeTab' in that order and
\* listener 1, while being notified of the change u -> v, switches the tab to
\* w. The entry v -> w follows the entry u -> v in the history; the round of
\* the nested call invokes listener 2 with (w, v) while the outer round has
\* not invoked it; when listener 1 returns the outer round invokes listener 2
\* with (v, u), the state and the history staying as the nested call left
\* them, and they stay so when the round ends: the key holds w.
C27_StaleNotification ==
    [][/\ /\ Len(stack) = 1 /\ FirstOfTwoRuns(1)
          /\ EndsWith(history, "activeTab", stack[1].oldValue, stack[1].newValue)
          /\ last'.act = "switchTab" /\ state' # state
          => /\ Len(stack') = 2
             /\ stack'[1] = stack[1]
             /\ stack'[2].key = <<"activeTab">>
             /\ stack'[2].cur = 1
             /\ stack'[2].newValue = last'.value
             /\ stack'[2].oldValue = stack[1].newValue
             /\ SubSeq(history', 1, Len(history)) = history
             /\ EndsWith(history', "activeTab", stack[1].newValue, last'.value)
             /\ GetProp(state', "activeTab") = last'.value
       /\ /\ Len(stack) = 2 /\ FirstOfTwoRuns(1) /\ FirstOfTwoRuns(2)
          /\ stack[2].oldValue = stack[1].newValue
          /\ last'.act \in {"return", "throw"}
          => /\ Len(stack') = 2
             /\ stack'[1] = stack[1]
             /\ stack'[2].cur = 2
             /\ stack'[2].newValue = stack[2].newValue
             /\ stack'[2].oldValue = stack[1].newValue
       /\ /\ Len(stack) = 1 /\ FirstOfTwoRuns(1)
          /\ last'.act \in {"return", "throw"}
          => /\ Len(stack') = 1
             /\ stack'[1].cur = 2
             /\ stack'[1].newValue = stack[1].newValue
             /\ stack'[1].oldValue = stack[1].oldValue
             /\ state' = state
             /\ history' = history
       /\ stack # <<>> /\ stack' = <<>> => state' = state /\ history' = history]_vars

\* After switchTab('income') and listener 1's switchTab('taxes'), whose round
\* has invoked both listeners, listener 2 is invoked with ('income',
\* 'overview') while activeTab holds 'taxes'; the history holds overview ->
\* income, then income -> taxes.
C27_Witness ==
    /\ last = Step("return", <<"activeTab">>, Undefined, 1)
    /\ Len(stack) = 1
    /\ Top(stack).cur = 2
    /\ Top(stack).newValue = Str("income")
    /\ Top(stack).oldValue = Str("overview")
    /\ invocations = 4
    /\ GetProp(state, "activeTab") = Str("taxes")
    /\ Len(history) = 2
    /\ history[1].oldValue = Str("overview") /\ history[1].newValue = Str("income")
    /\ history[2].oldValue = Str("income") /\ history[2].newValue = Str("taxes")

\* reset() has replaced the state by a copy of the initial snapshot, whatever
\* the values are, and has begun with the first key of the registry: its
\* first listener is invoked.
ResetBegins ==
    last'.act = "reset" =>
        /\ Content(state') = Content(InitialState)
        /\ history' = history
        /\ IF listeners = <<>>
              THEN stack' = stack /\ invocations' = invocations
              ELSE /\ Len(stack') = Len(stack) + 1
                   /\ Front(stack') = stack
                   /\ Top(stack').src = "reset"
                   /\ Top(stack').key = listeners[1].key
                   /\ Top(stack').cur = listeners[1].ls[1]
                   /\ Top(stack').cont.owed = Registered(listeners)

\* A step of reset's notifications after the running listener has returned or
\* thrown, when reset returns: each of the <<key, listener>> owed an
\* invocation has been invoked exactly once by the reset.
ResetEnds(owedOf(_)) ==
    /\ stack # <<>>
    /\ last'.act \in {"return", "throw"}
    /\ Top(stack).src = "reset"
    /\ stack' = Front(stack)
    => LET f == Top(stack)
           log == f.cont.log \o [i \in 1..Len(f.seen) |-> <<f.key, f.seen[i]>>]
       IN  \A pair \in owedOf(f.cont) : Occurrences(log, pair) = 1

RegisteredAtReset(cont) == cont.owed
StillRegistered(cont) == cont.owed \ cont.dropped

\* C29: reset() replaces the state without running a validator and notifies
\* per registry key, in the order of the registry, dotted paths and keys whose
\* value did not change included: every listener registered when reset was
\* called and not unsubscribed during the reset is invoked exactly once, with
\* newValue read from the state at the key or path and oldValue read from the
\* copy of the state before the reset at the same key or path.
C29_ResetNotifiesPerKey ==
    [][ResetBegins /\ ResetArguments /\ ResetEnds(StillRegistered)]_vars

\* reset() has returned after invoking the listener of 'isLoading', whose
\* value had not changed, and the listener of 'data.income'.
C29_Witness ==
    /\ last.act \in {"return", "throw"}
    /\ stack = <<>>
    /\ invocations = 2
    /\ calls = 3
    /\ Registered(listeners) = {<<<<"isLoading">>, 1>>, <<<<"data", "income">>, 1>>}
    /\ GetNested(state, <<"data", "income">>).e = <<>>

\* C29 as stated: each listener of every registry key is invoked exactly
\* once, also one that is unsubscribed during the reset.
C29_EachListenerOnce ==
    [][ResetBegins /\ ResetArguments /\ ResetEnds(RegisteredAtReset)]_vars

\* The listeners the round f has still to invoke, the registry being reg.
StillToInvoke(f, reg) ==
    IF f.alive
       THEN {ListenersOf(reg, f.key)[i] : i \in (f.pos + 1)..Len(ListenersOf(reg, f.key))}
       ELSE {}

\* The sequence seq without x.
Without(seq, x) == IF IndexOf(seq, x) = 0 THEN seq ELSE RemoveAt(seq, IndexOf(seq, x))

\* C30: calling the function subscribe(key, L) returned removes L from the
\* listeners of key and changes nothing else: the listeners of every key,
\* that one included, are the others, in the same order; the state tree and
\* the history are as they were; no listener is invoked by the call; and the
\* rounds in progress have the same listeners still to invoke, except L under
\* key.
C30_UnsubscribeRemovesOne ==
    [][last'.act = "unsubscribe" =>
          /\ state' = state
          /\ history' = history
          /\ ~raised'
          /\ invocations' = invocations
          /\ \A pair \in SubPairs :
                ListenersOf(listeners', pair[1]) =
                   IF pair[1] = last'.key
                      THEN Without(ListenersOf(listeners, pair[1]), last'.l)
                      ELSE ListenersOf(listeners, pair[1])
          /\ Len(stack') = Len(stack)
          /\ \A d \in 1..Len(stack) :
                /\ stack'[d].key = stack[d].key
                /\ stack'[d].cur = stack[d].cur
                /\ stack'[d].seen = stack[d].seen
                /\ StillToInvoke(stack'[d], listeners') =
                      StillToInvoke(stack[d], listeners) \
                         (IF stack[d].key = last'.key THEN {last'.l} ELSE {})]_vars

\* Listener 1 of 'activeTab' has unsubscribed itself while being notified:
\* listener 2 stays registered and the round has still to invoke it.
C30_Witness ==
    /\ last = Step("unsubscribe", <<"activeTab">>, Undefined, 1)
    /\ Len(stack) = 1
    /\ Top(stack).key = <<"activeTab">>
    /\ Top(stack).cur = 1
    /\ ListenersOf(listeners, <<"activeTab">>) = <<2>>
    /\ StillToInvoke(Top(stack), listeners) = {2}


\* The entry of a batch is one set does not commit in the state st: its key
\* has no '.', and its value is refused by the validator of the key or is
\* equal to the value stored.
Skips(st, e) ==
    /\ Len(e.path) = 1
    /\ \/ DeepEqual(GetProp(st, e.path[1]), e.value)
       \/ Rejected(e.path[1], e.value)

\* No path of the entries is the beginning of the path of another entry.
Disjoint(todo) ==
    \A i, j \in 1..Len(todo) :
        i # j => LET p == todo[i].path
                     q == todo[j].path
                 IN  ~(Len(p) <= Len(q) /\ SubSeq(q, 1, Len(p)) = p)

\* The walk of every entry with a dotted key reaches its leaf.
Reaches(todo) == \A i \in 1..Len(todo) : ThroughObjects(state, todo[i].path)

\* This step has applied the first k of the entries, each as set or
\* setNested according to its key, and none of those after them: a dotted
\* path holds its value; an undotted key holds its value unless set did not
\* commit it, and each commit of set has added one history entry.
Segment(todo, k) ==
    /\ \A i \in 1..k :
          GetNested(state', todo[i].path) =
              IF Skips(state, todo[i]) THEN GetNested(state, todo[i].path)
                                       ELSE todo[i].value
    /\ \A i \in (k + 1)..Len(todo) :
          GetNested(state', todo[i].path) = GetNested(state, todo[i].path)
    /\ Len(history') = Len(history)
          + Cardinality({i \in 1..k : Len(todo[i].path) = 1 /\ ~Skips(state, todo[i])})
    /\ \A i \in 1..k :
          Len(todo[i].path) = 1 /\ ~Skips(state, todo[i]) =>
              \E n \in (Len(history) + 1)..Len(history') :
                  /\ history'[n].key = todo[i].path[1]
                  /\ Content(history'[n].newValue) = Content(todo[i].value)

\* This step has gone through the entries in order, above the rounds base:
\* up to and including the first one that is committed and has listeners,
\* whose first listener is now running with the value of that entry while
\* the entries after it wait; or through all of them if no entry notifies.
BatchProgress(todo, base) ==
    LET notifying == {i \in 1..Len(todo) :
                         /\ ~Skips(state, todo[i])
                         /\ ListenersOf(listeners, todo[i].path) # <<>>}
    IN  IF notifying = {}
           THEN Segment(todo, Len(todo)) /\ stack' = base
           ELSE LET k == CHOOSE i \in notifying : \A j \in notifying : i <= j
                IN  /\ Segment(todo, k)
                    /\ stack' # <<>>
                    /\ Front(stack') = base
                    /\ Top(stack').key = todo[k].path
                    /\ Top(stack').newValue = todo[k].value
                    /\ Top(stack').oldValue = GetNested(state, todo[k].path)
                    /\ Len(Top(stack').cont.todo) = Len(todo) - k
                    /\ \A i \in 1..(Len(todo) - k) :
                          /\ Top(stack').cont.todo[i].path = todo[k + i].path
                          /\ Top(stack').cont.todo[i].value = todo[k + i].value

\* The round on top of the stack has no listener left to invoke.
RoundEnds ==
    LET f == Top(stack)
    IN  ~(f.alive /\ f.pos < Len(ListenersOf(listeners, f.key)))

C32_ResetKeepsHistory ==
    [][/\ last'.act = "reset" => history' = history /\ listeners' = listeners
       /\ last'.act \in {"return", "throw"} /\ Top(stack).src = "reset"
            => history' = history /\ listeners' = listeners]_vars

\* After switchTab('income') and setIncomeData(ListA), reset() has restored
\* activeTab to 'overview' and is notifying a listener: the history still
\* holds the entry of switchTab and no other.
C32_Witness ==
    /\ last.act = "reset"
    /\ stack # <<>>
    /\ Top(stack).src = "reset"
    /\ GetProp(state, "activeTab") = Str("overview")
    /\ Len(history) = 1
    /\ history[1].key = "activeTab"
    /\ history[1].newValue = Str("income")
    /\ listeners # <<>>


\* The two writes selectRecord(type, id) asks for, and those of
\* clearSelectedRecord(), in the order of the calls.
SelectionWrites(type, id) ==
    <<[path |-> <<"currentRecordType">>, value |-> type],
      [path |-> <<"currentRecord">>, value |-> id]>>
ClearingWrites ==
    <<[path |-> <<"currentRecord">>, value |-> Null],
      [path |-> <<"currentRecordType">>, value |-> Null]>>

\* How many of the writes todo this step has made, above the rounds base:
\* all of them, or those before the ones that wait for the round it began.
Made(todo, base) ==
    IF stack' = base THEN Len(todo) ELSE Len(todo) - Len(Top(stack').cont.todo)

\* Each write of null this step has made has left null in its field.
NullsStored(todo, base) ==
    \A i \in 1..Made(todo, base) :
        todo[i].value = Null => GetNested(state', todo[i].path) = Null

\* C33: selectRecord(type, id) is set('currentRecordType', type) followed by
\* set('currentRecord', id), each validated on its own: a refused argument
\* leaves its field as it was and the other one is committed all the same;
\* the listeners of 'currentRecordType' are entered while currentRecord still
\* holds its previous value, and the id is written when their round has
\* ended. clearSelectedRecord() writes null to currentRecord, then to
\* currentRecordType, and null is never refused: each of its two writes
\* leaves null in its field.
C33_SelectRecordTwoWrites ==
    [][/\ last'.act = "selectRecord" =>
            /\ BatchProgress(SelectionWrites(Str(last'.key[1]), last'.value), stack)
            /\ stack' # stack /\ Top(stack').key = <<"currentRecordType">> =>
                  GetProp(state', "currentRecord") = GetProp(state, "currentRecord")
       /\ last'.act = "clearSelectedRecord" =>
            /\ BatchProgress(ClearingWrites, stack)
            /\ NullsStored(ClearingWrites, stack)
       /\ last'.act \in {"return", "throw"} /\ Top(stack).cont.kind = "todo" /\ RoundEnds =>
            /\ BatchProgress(Top(stack).cont.todo, Front(stack))
            /\ NullsStored(Top(stack).cont.todo, Front(stack))]_vars

\* selectRecord('income', 0) has been called on the constructed container
\* and has returned, its listener on 'currentRecordType' having run:
\* currentRecordType is 'income', currentRecord is still null, and the
\* history has the one entry of the type.
C33_Witness ==
    /\ last = Step("return", <<"currentRecordType">>, Undefined, 1)
    /\ stack = <<>>
    /\ GetProp(state, "currentRecordType") = Str("income")
    /\ GetProp(state, "currentRecord") = Null
    /\ Len(history) = 1
    /\ history[1].key = "currentRecordType"
    /\ invocations = 1


\* The listeners registered under key.
RegisteredUnder(reg, key) == Range(ListenersOf(reg, key))

\* C34: subscribing a listener under a key under which it is registered
\* already registers it once: the registry and the rounds in progress stay
\* as they were, no Set holds a listener twice, so a round started by a
\* change invokes it as one listener; a call of a closure that subscribe
\* returned for the listener and the key removes it, whichever of the
\* subscriptions the closure comes from, and a listener is invoked only
\* while it is registered, and registered only by a call of subscribe.
C34_DoubleSubscribeRegistersOnce ==
    [][/\ last'.act = "subscribe" /\ last'.l \in RegisteredUnder(listeners, last'.key) =>
            listeners' = listeners /\ stack' = stack
       /\ \A i \in 1..Len(listeners') :
            \A l \in Range(listeners'[i].ls) : Occurrences(listeners'[i].ls, l) = 1
       /\ last'.act = "unsubscribe" => last'.l \notin RegisteredUnder(listeners', last'.key)
       /\ invocations' # invocations =>
            Top(stack').cur \in RegisteredUnder(listeners', Top(stack').key)
       /\ \A i \in 1..Len(listeners') :
            \A l \in Range(listeners'[i].ls) :
                l \notin RegisteredUnder(listeners, listeners'[i].key) =>
                    last'.act = "subscribe" /\ last'.key = listeners'[i].key /\ last'.l = l]_vars

\* Listener 1 has been subscribed under 'activeTab' while it was registered
\* under it, and the Set of 'activeTab' holds it once.
C34_Witness ==
    /\ last = Step("subscribe", <<"activeTab">>, Bool(TRUE), 1)
    /\ ListenersOf(listeners, <<"activeTab">>) = <<1>>
    /\ <<<<"activeTab">>, 1>> \notin spent


\* The elements of the notification list in the state st.
Notes(st) == GetProp(st, "notifications").e

\* This step has committed a new notification list: one history entry for
\* 'notifications' is added and one round begins, which enters the first
\* listener of 'notifications' with the new list.
NotesCommitted == CommitStep("notifications", GetProp(state', "notifications"))

\* This step has changed nothing and invoked no listener.
NoOp ==
    /\ state' = state
    /\ history' = history
    /\ stack' = stack
    /\ invocations' = invocations

\* C35: addNotification(n) always commits: the list is the previous one
\* with n added at the end, one history entry is added and one round of the
\* listeners of 'notifications' begins. removeNotification(i) with i outside
\* the indexes of the list, and clearNotifications() on an empty list, change
\* nothing, add no history entry and invoke no listener. removeNotification(i)
\* with i in range commits the list without the element at index i, the
\* others in their order.
C35_NotificationList ==
    [][/\ last'.act = "addNotification" =>
            /\ Notes(state') = Append(Notes(state), last'.value)
            /\ NotesCommitted
       /\ last'.act = "removeNotification" =>
            IF last'.l \in 0..(Len(Notes(state)) - 1)
               THEN /\ Len(Notes(state')) = Len(Notes(state)) - 1
                    /\ \A j \in 1..Len(Notes(state')) :
                          Notes(state')[j] = Notes(state)[IF j <= last'.l THEN j ELSE j + 1]
                    /\ NotesCommitted
               ELSE NoOp
       /\ last'.act = "clearNotifications" =>
            IF Notes(state) = <<>> THEN NoOp
            ELSE Notes(state') = <<>> /\ NotesCommitted]_vars

\* Two notifications have been added, the first has been removed, and
\* removeNotification(1) has then been called on the list of one element:
\* the list still holds that element and the history the three entries of
\* the changes.
C35_Witness ==
    /\ last = Step("removeNotification", <<"notifications">>, Undefined, 1)
    /\ calls = 4
    /\ Notes(state) = <<Note2>>
    /\ Len(history) = 3
    /\ Len(history[2].newValue.e) = 2


\* The collection name of the data of st holds an array with an element, and
\* the record name holds an object.
NonEmpty(st, name) ==
    LET v == GetNested(st, <<"data", name>>)
    IN  v.t = "array" /\ v.e # <<>>
Present(st, name) == GetNested(st, <<"data", name>>).t = "object"

\* C36: when clearAllData() has written the data, whatever was stored
\* before, hasDataForTab(t) is false for each of the six tabs and
\* getDataCounts() gives 0 for each of the six collections; a call of
\* hasDataForTab or getDataCounts changes nothing; hasDataForTab('deductions')
\* returns true exactly when mileage or utilities is not empty or a
\* home-office record is present, and hasDataForTab('taxes') exactly when the
\* tax settings are present or taxPayments is not empty.
C36_HasDataAfterClear ==
    [][/\ last'.act = "clearAllData" =>
            /\ \A t \in SixTabs : ~HasDataForTabOp(state', t)
            /\ \A c \in SixCollections : GetDataCountsOp(state')[c] = Num(0)
       /\ last'.act \in {"hasDataForTab", "getDataCounts"} =>
            /\ state' = state
            /\ history' = history
            /\ stack' = stack
       /\ last'.act = "hasDataForTab" /\ last'.key = <<"deductions">> =>
            (last'.value = Bool(TRUE)) =
                (\/ NonEmpty(state, "mileage")
                 \/ NonEmpty(state, "utilities")
                 \/ Present(state, "homeOffice"))
       /\ last'.act = "hasDataForTab" /\ last'.key = <<"taxes">> =>
            (last'.value = Bool(TRUE)) =
                (Present(state, "taxSettings") \/ NonEmpty(state, "taxPayments"))
       /\ last'.act = "hasDataForTab" => last'.value \in {Bool(TRUE), Bool(FALSE)}]_vars

\* clearAllData() has been called while data held a home-office record and
\* a list of mileage records, and the listener of 'data' is running with the
\* previous data as oldValue: no tab has data now.
C36_Witness ==
    /\ last.act = "clearAllData"
    /\ stack # <<>>
    /\ Top(stack).key = <<"data">>
    /\ GetProp(Top(stack).oldValue, "homeOffice") = HomeOfficeD
    /\ GetProp(Top(stack).oldValue, "mileage") = ListB
    /\ \A t \in SixTabs : ~HasDataForTabOp(state, t)
    /\ GetDataCountsOp(state)["mileage"] = Num(0)

====
